---- MODULE Spec2Model ----
(***************************************************************************)
(* Verification model of the penalty / LLA core of ya_glm:                 *)
(*   - ya_glm/opt/penalty/convex.py       convex penalty Funcs             *)
(*   - ya_glm/opt/from_config/penalty.py  factory and smooth/non-smooth    *)
(*                                        splitter                         *)
(*   - ya_glm/solver/LLA.py               weighted-subproblem adapter and  *)
(*                                        the LLA solver front end         *)
(*   - ya_glm/GlmCV.py                    penalty value tuning sequences   *)
(* Real numbers are exact rationals <<numerator, denominator>>.            *)
(***************************************************************************)
EXTENDS Integers, Sequences, FiniteSets, TLC

(***************************************************************************)
(* Bounds of the model                                                     *)
(***************************************************************************)
\* largest number of children of a Sum
MaxFuncs == 3
\* largest penalty strength drawn for a penalty
MaxPenVal == 2
\* largest absolute value of a coordinate of an evaluation point
MaxCoord == 2
\* number of coordinates of a coefficient vector
Dim == 2
\* largest absolute value of a coordinate handed to a proximal map
MaxProxCoord == 4
\* largest proximal step
MaxStep == 2
\* number of WeightedGlmProblemSolver objects built from the one solver
NumAdapters == 2
\* number of penalty specification objects
NumPens == 2
\* largest number of solver clones alive at a time
MaxClones == 2
\* largest number of solves asked of one solver clone
MaxSolves == 2
\* largest step budget n_steps an LLA run is given
MaxNSteps == 3
\* largest number of subproblem solves one solver clone is asked for by LLA runs
MaxSubSolves == 3
\* largest length of a user-provided penalty value sequence
MaxSeqLen == 3
MaxFits == 2
MaxTuneLen == 2
MaxGridRatios == 2
MaxScale == 2
MaxCoef == 1

(***************************************************************************)
(* Exact rational arithmetic                                               *)
(***************************************************************************)
\* Every operation binds its arguments once (a \in {p}) and computes on the
\* bound values.
Abs(a) == IF a < 0 THEN -a ELSE a

RECURSIVE Gcd(_, _)
Gcd(a, b) ==
    IF b = 0 THEN a ELSE CHOOSE g \in {Gcd(b, r) : r \in {a % b}} : TRUE

Lowest(n, d, g, s) == <<(s * n) \div g, (s * d) \div g>>

\* the rational n/d (d # 0) in lowest terms with a positive denominator
Rat(n, d) ==
    CHOOSE r \in {Lowest(a, b, Gcd(Abs(a), Abs(b)), IF b < 0 THEN -1 ELSE 1) :
                    a \in {n}, b \in {d}} : TRUE

RInt(a) == <<a, 1>>
RZero == <<0, 1>>
ROne == <<1, 1>>
RAdd(p, q) ==
    CHOOSE r \in {Rat(a[1] * b[2] + b[1] * a[2], a[2] * b[2]) :
                    a \in {p}, b \in {q}} : TRUE
RSub(p, q) ==
    CHOOSE r \in {Rat(a[1] * b[2] - b[1] * a[2], a[2] * b[2]) :
                    a \in {p}, b \in {q}} : TRUE
RMul(p, q) ==
    CHOOSE r \in {Rat(a[1] * b[1], a[2] * b[2]) : a \in {p}, b \in {q}} : TRUE
RDiv(p, q) ==
    CHOOSE r \in {Rat(a[1] * b[2], a[2] * b[1]) : a \in {p}, b \in {q}} : TRUE
RLess(p, q) == \E a \in {p}, b \in {q} : a[1] * b[2] < b[1] * a[2]
RAbs(p) == CHOOSE r \in {<<Abs(a[1]), a[2]>> : a \in {p}} : TRUE
RMax(p, q) ==
    CHOOSE r \in {IF RLess(a, b) THEN b ELSE a : a \in {p}, b \in {q}} : TRUE
RSign(p) ==
    CHOOSE r \in {IF a[1] > 0 THEN ROne
                  ELSE IF a[1] < 0 THEN RInt(-1) ELSE RZero : a \in {p}} : TRUE

\* vectors of rationals
RVec(v) == [i \in DOMAIN v |-> RInt(v[i])]


RECURSIVE RSumOver(_, _)
\* sum of F[i] over the indices listed in the sequence idx
RSumOver(F, idx) ==
    IF idx = <<>> THEN RZero ELSE RAdd(F[Head(idx)], RSumOver(F, Tail(idx)))

Indices(v) == [i \in 1..Len(v) |-> i]
RTotal(v) == CHOOSE r \in {RSumOver(w, Indices(w)) : w \in {v}} : TRUE

(***************************************************************************)
(* Results of calls: a call returns a value or raises                      *)
(***************************************************************************)
\* Python's None where a Func is expected (None), where weights are expected
\* (NoWeights)
None == [kind |-> "None"]
NoWeights == <<>>
Ok(v) == [status |-> "ok", value |-> v]
Raised(e, m) == [status |-> "raised", exc |-> e, msg |-> m]
NotCalled == [status |-> "none"]
\* the message of an exception: its text and the value formatted into it
NoArg == "-"
Msg(text, arg) == [text |-> text, arg |-> arg]
IsOk(r) == r.status = "ok"
IsRaised(r) == r.status = "raised"
HasAttr(obj, a) == a \in DOMAIN obj

(***************************************************************************)
(* Convex penalty Funcs (ya_glm/opt/penalty/convex.py)                     *)
(* A Func is a record of its class name (kind) and its attributes; an      *)
(* attribute the constructor does not set is not a field of the record.    *)
(***************************************************************************)
\* largest entry of a non-empty sequence of rationals
RECURSIVE RMaxOf(_)
RMaxOf(w) == IF Len(w) = 1 THEN w[1] ELSE RMax(w[1], RMaxOf(Tail(w)))

Ridge(pen_val, weights) ==
    [kind |-> "Ridge", pen_val |-> pen_val, weights |-> weights,
     grad_lip |-> IF weights = NoWeights THEN pen_val
                  ELSE RMul(pen_val, RMaxOf(weights))]

Lasso(pen_val, weights) ==
    [kind |-> "Lasso", pen_val |-> pen_val, weights |-> weights]

\* one entry of x per coordinate, squared / in absolute value
Squares(x) == [i \in DOMAIN x |-> RMul(x[i], x[i])]
AbsVals(x) == [i \in DOMAIN x |-> RAbs(x[i])]
Weighted(w, x) == [i \in DOMAIN x |-> RMul(w[i], x[i])]

Ridge_eval(f, x) ==
    LET norm_val == IF f.weights = NoWeights THEN RTotal(Squares(x))
                    ELSE RTotal(Weighted(f.weights, Squares(x)))
    IN  RMul(RMul(<<1, 2>>, f.pen_val), norm_val)

Lasso_eval(f, x) ==
    LET norm_val == IF f.weights = NoWeights THEN RTotal(AbsVals(x))
                    ELSE RTotal(Weighted(f.weights, AbsVals(x)))
    IN  RMul(norm_val, f.pen_val)

\* GroupLasso.__init__: one L2Norm(mult) per group; groups=None becomes the
\* single group [...] of everything.  No pen_val attribute is set.
\* (coordinates are numbered from 1, so 0 is free to stand for the marker)
AllCoords == <<0>>
NoGroups == <<>>
GroupLasso(groups, pen_val, weights) ==
    LET gs == IF groups = NoGroups THEN <<AllCoords>> ELSE groups
    IN  [kind |-> "GroupLasso", groups |-> gs,
         pen_funcs |-> [g \in 1..Len(gs) |->
                          [kind |-> "L2Norm",
                           mult |-> IF weights = NoWeights THEN pen_val
                                    ELSE RMul(pen_val, weights[g])]]]

MultiTaskLasso(pen_val, weights) ==
    [kind |-> "MultiTaskLasso", pen_val |-> pen_val, weights |-> weights]

\* GeneralizedLasso.__init__: a Lasso composed with a matrix; no _prox
GeneralizedLasso(pen_val, mat, weights) ==
    [kind |-> "GeneralizedLasso", mat |-> mat,
     lasso |-> Lasso(pen_val, weights)]

ElasticNet(pen_val, mix, lasso_weights, ridge_weights) ==
    [kind |-> "ElasticNet",
     lasso |-> Lasso(RMul(pen_val, mix), lasso_weights),
     ridge |-> Ridge(RMul(pen_val, RSub(ROne, mix)), ridge_weights)]

GroupElasticNet(groups, pen_val, mix_val, lasso_weights) ==
    [kind |-> "GroupElasticNet",
     lasso |-> GroupLasso(groups, RMul(pen_val, mix_val), lasso_weights),
     ridge |-> Ridge(RMul(pen_val, RSub(ROne, mix_val)), NoWeights)]

MultiTaskElasticNet(pen_val, mix_val, lasso_weights) ==
    [kind |-> "MultiTaskElasticNet",
     lasso |-> MultiTaskLasso(RMul(pen_val, mix_val), lasso_weights),
     ridge |-> Ridge(RMul(pen_val, RSub(ROne, mix_val)), NoWeights)]

SparseGroupLasso(groups, pen_val, mix_val, sparse_weights, group_weights) ==
    [kind |-> "SparseGroupLasso",
     sparse |-> Lasso(RMul(pen_val, mix_val), sparse_weights),
     group |-> GroupLasso(groups, RMul(pen_val, RSub(ROne, mix_val)),
                          group_weights)]

\* the is_smooth property of each class; reading an attribute the object
\* does not have raises AttributeError
ElasticNet_is_smooth(f) ==
    IF HasAttr(f.lasso, "pen_val") THEN Ok(f.lasso.pen_val = RZero)
    ELSE Raised("AttributeError", Msg("object has no attribute", "pen_val"))

ElasticNetLikeMixin_is_smooth(f) ==
    IF HasAttr(f.lasso, "pen_val") THEN Ok(f.lasso.pen_val = RZero)
    ELSE Raised("AttributeError", Msg("object has no attribute", "pen_val"))

is_smooth(f) ==
    CASE f.kind \in {"Ridge", "GeneralizedRidge"} -> Ok(TRUE)
      [] f.kind \in {"Lasso", "GroupLasso", "ExclusiveGroupLasso",
                     "NuclearNorm", "MultiTaskLasso", "GeneralizedLasso",
                     "SparseGroupLasso"} -> Ok(FALSE)
      [] f.kind = "ElasticNet" -> ElasticNet_is_smooth(f)
      [] f.kind \in {"GroupElasticNet", "MultiTaskElasticNet"} ->
             ElasticNetLikeMixin_is_smooth(f)

(***************************************************************************)
(* Proximal maps (convex.py; the helpers of ya_glm.opt.prox and            *)
(* ya_glm.opt.convex_funcs follow the closed forms of the specification)   *)
(***************************************************************************)
\* x[grp_idxs]
SubVec(x, grp_idxs) ==
    IF grp_idxs = AllCoords THEN x
    ELSE [i \in 1..Len(grp_idxs) |-> x[grp_idxs[i]]]

\* integer square root, and the exact root of a rational that has one
ISqrt(n) == CHOOSE k \in 0..n : k * k <= n /\ (k + 1) * (k + 1) > n
IsSquare(n) == ISqrt(n) * ISqrt(n) = n
HasRSqrt(r) == r[1] >= 0 /\ IsSquare(r[1]) /\ IsSquare(r[2])
RSqrt(r) == <<ISqrt(r[1]), ISqrt(r[2])>>

euclid_norm(x) == RSqrt(RTotal(Squares(x)))

\* a scalar applied to every coordinate of x
Broadcast(c, x) == [i \in DOMAIN x |-> c]
ZerosLike(x) == [i \in DOMAIN x |-> RZero]

\* sign(x) * max(|x| - thresh, 0), entrywise
soft_thresh(x, thresh_vals) ==
    [i \in DOMAIN x |->
        RMul(RSign(x[i]), RMax(RSub(RAbs(x[i]), thresh_vals[i]), RZero))]

\* x * max(1 - mult / ||x||, 0), and 0 for x = 0
L2_prox(x, mult) ==
    IF x = ZerosLike(x) THEN x
    ELSE LET factor == RMax(RSub(ROne, RDiv(mult, euclid_norm(x))), RZero)
         IN  [i \in DOMAIN x |-> RMul(x[i], factor)]

L2Norm_prox(pen_func, x, step) == L2_prox(x, RMul(pen_func.mult, step))

Ridge_prox(f, x, step) ==
    LET shrink_vals == IF f.weights = NoWeights
                       THEN Broadcast(RMul(step, f.pen_val), x)
                       ELSE [i \in DOMAIN x |->
                               RMul(RMul(step, f.pen_val), f.weights[i])]
    IN  [i \in DOMAIN x |-> RDiv(x[i], RAdd(ROne, shrink_vals[i]))]

\* the variant that shrinks as Ridge._prox does instead of thresholding
Lasso_prox_shrink(f, x, step) ==
    LET shrink_vals == IF f.weights = NoWeights
                       THEN Broadcast(RMul(step, f.pen_val), x)
                       ELSE [i \in DOMAIN x |->
                               RMul(RMul(step, f.pen_val), f.weights[i])]
    IN  [i \in DOMAIN x |-> RDiv(x[i], RAdd(ROne, shrink_vals[i]))]

Lasso_prox(f, x, step) ==
    LET thresh_vals == IF f.weights = NoWeights
                       THEN Broadcast(RMul(step, f.pen_val), x)
                       ELSE [i \in DOMAIN x |->
                               RMul(RMul(step, f.pen_val), f.weights[i])]
    IN  soft_thresh(x, thresh_vals)

\* the group loop of GroupLasso._prox from group g on, out being the
\* array assembled so far
RECURSIVE GroupLoop(_, _, _, _, _)
GroupLoop(f, x, step, g, out) ==
    IF g > Len(f.groups) THEN out
    ELSE LET grp_idxs == f.groups[g]
             p == L2Norm_prox(f.pen_funcs[g], SubVec(x, grp_idxs), step)
             put == IF grp_idxs = AllCoords THEN p
                    ELSE [i \in DOMAIN out |->
                            IF \E k \in 1..Len(grp_idxs) : grp_idxs[k] = i
                            THEN p[CHOOSE k \in 1..Len(grp_idxs) :
                                       /\ grp_idxs[k] = i
                                       /\ \A l \in (k + 1)..Len(grp_idxs) :
                                              grp_idxs[l] # i]
                            ELSE out[i]]
         IN  GroupLoop(f, x, step, g + 1, put)

GroupLasso_prox(f, x, step) == GroupLoop(f, x, step, 1, ZerosLike(x))

\* MultiTaskLasso._prox: x is a matrix, given as the sequence of its rows
MultiTaskLasso_prox(f, x, step) ==
    [r \in DOMAIN x |->
        L2_prox(x[r], IF f.weights = NoWeights THEN RMul(f.pen_val, step)
                      ELSE RMul(RMul(f.pen_val, step), f.weights[r]))]

\* soft-threshold by the lasso part, then rescale by the ridge shrinkage
prox_ridge_lasso(x, lasso_pen_val, lasso_weights, ridge_pen_val, ridge_weights, step) ==
    Ridge_prox(Ridge(ridge_pen_val, ridge_weights),
               Lasso_prox(Lasso(lasso_pen_val, lasso_weights), x, step),
               step)

ElasticNet_prox(f, x, step) ==
    Ok(prox_ridge_lasso(x, f.lasso.pen_val, f.lasso.weights,
                        f.ridge.pen_val, f.ridge.weights, step))

ElasticNetLikeMixin_prox(f, x, step) ==
    IF f.ridge.weights # NoWeights
    THEN Raised("AssertionError", Msg("", NoArg))
    ELSE IF ~HasAttr(f, "group_lasso")
    THEN Raised("AttributeError",
                Msg("object has no attribute", "group_lasso"))
    ELSE Ok(Ridge_prox(f.ridge, GroupLasso_prox(f.group_lasso, x, step),
                       step))

SparseGroupLasso_prox_reversed(f, x, step) ==
    Lasso_prox(f.sparse, GroupLasso_prox(f.group, x, step), step)

SparseGroupLasso_prox(f, x, step) ==
    GroupLasso_prox(f.group, Lasso_prox(f.sparse, x, step), step)

\* func._prox(x, step) for the classes that define _prox
prox(f, x, step) ==
    CASE f.kind = "Ridge" -> Ok(Ridge_prox(f, x, step))
      [] f.kind = "Lasso" -> Ok(Lasso_prox(f, x, step))
      [] f.kind = "GroupLasso" -> Ok(GroupLasso_prox(f, x, step))
      [] f.kind = "MultiTaskLasso" -> Ok(MultiTaskLasso_prox(f, x, step))
      [] f.kind = "ElasticNet" -> ElasticNet_prox(f, x, step)
      [] f.kind \in {"GroupElasticNet", "MultiTaskElasticNet"} ->
             ElasticNetLikeMixin_prox(f, x, step)
      [] f.kind = "SparseGroupLasso" ->
             Ok(SparseGroupLasso_prox(f, x, step))

(***************************************************************************)
(* Composite Funcs                                                         *)
(***************************************************************************)
Sum(funcs) == [kind |-> "Sum", funcs |-> funcs]
BlockSeparable(funcs, groups) ==
    [kind |-> "BlockSeparable", funcs |-> funcs, groups |-> groups]


\* Sum._eval, BlockSeparable._eval and the leaves' _eval; an absent Func
\* (None) contributes zero
RECURSIVE Eval(_, _)
Eval(f, x) ==
    CASE f.kind = "None" -> RZero
      [] f.kind = "Ridge" -> Ridge_eval(f, x)
      [] f.kind = "Lasso" -> Lasso_eval(f, x)
      [] f.kind = "ElasticNet" ->
             RAdd(Lasso_eval(f.lasso, x), Ridge_eval(f.ridge, x))
      [] f.kind = "Sum" ->
             RTotal([i \in 1..Len(f.funcs) |-> Eval(f.funcs[i], x)])
      [] f.kind = "BlockSeparable" ->
             RTotal([i \in 1..Len(f.funcs) |->
                       Eval(f.funcs[i], SubVec(x, f.groups[i]))])

(***************************************************************************)
(* split_smooth_and_non_smooth (ya_glm/opt/from_config/penalty.py)         *)
(***************************************************************************)
SplitPair(smooth, non_smooth) == [smooth |-> smooth, non_smooth |-> non_smooth]

\* indices of the children with / without the smooth flag, in order
RECURSIVE PickIdx(_, _, _)
PickIdx(funcs, i, want) ==
    IF i > Len(funcs) THEN <<>>
    ELSE (IF is_smooth(funcs[i]).value = want THEN <<i>> ELSE <<>>)
         \o PickIdx(funcs, i + 1, want)

Pick(s, idx) == [k \in 1..Len(idx) |-> s[idx[k]]]

split_Sum(func) ==
    LET smooth_funcs == Pick(func.funcs, PickIdx(func.funcs, 1, TRUE))
        non_smooth_funcs == Pick(func.funcs, PickIdx(func.funcs, 1, FALSE))
        smooth == IF Len(smooth_funcs) = 1 THEN smooth_funcs[1]
                  ELSE IF Len(smooth_funcs) > 1 THEN Sum(smooth_funcs)
                  ELSE None
    IN  IF Len(smooth_funcs) = 1
        THEN IF Len(non_smooth_funcs) = 0
             THEN Raised("IndexError", Msg("list index out of range", NoArg))
             ELSE Ok(SplitPair(smooth, non_smooth_funcs[1]))
        ELSE IF Len(non_smooth_funcs) >= 1
             THEN Ok(SplitPair(smooth, Sum(non_smooth_funcs)))
             ELSE Ok(SplitPair(smooth, None))

\* the variant that keeps the leading groups instead of the children's own
split_BlockSeparable_misgrouped(func) ==
    LET si == PickIdx(func.funcs, 1, TRUE)
        ni == PickIdx(func.funcs, 1, FALSE)
        smooth == IF Len(si) >= 1
                  THEN BlockSeparable(Pick(func.funcs, si),
                                      SubSeq(func.groups, 1, Len(si)))
                  ELSE None
        non_smooth == IF Len(ni) >= 1
                      THEN BlockSeparable(Pick(func.funcs, ni),
                                          SubSeq(func.groups, 1, Len(ni)))
                      ELSE None
    IN  Ok(SplitPair(smooth, non_smooth))

split_BlockSeparable(func) ==
    LET si == PickIdx(func.funcs, 1, TRUE)
        ni == PickIdx(func.funcs, 1, FALSE)
        smooth == IF Len(si) >= 1
                  THEN BlockSeparable(Pick(func.funcs, si),
                                      Pick(func.groups, si))
                  ELSE None
        non_smooth == IF Len(ni) >= 1
                      THEN BlockSeparable(Pick(func.funcs, ni),
                                          Pick(func.groups, ni))
                      ELSE None
    IN  Ok(SplitPair(smooth, non_smooth))

split_leaf(func) ==
    IF IsRaised(is_smooth(func)) THEN is_smooth(func)
    ELSE Ok(SplitPair(IF is_smooth(func).value THEN func ELSE None, None))

split_smooth_and_non_smooth(func) ==
    IF func.kind \in {"Sum", "BlockSeparable"}
    THEN IF \E i \in 1..Len(func.funcs) : IsRaised(is_smooth(func.funcs[i]))
         THEN LET i == CHOOSE j \in 1..Len(func.funcs) :
                         /\ IsRaised(is_smooth(func.funcs[j]))
                         /\ \A k \in 1..(j - 1) :
                                IsOk(is_smooth(func.funcs[k]))
              IN  is_smooth(func.funcs[i])
         ELSE IF func.kind = "Sum" THEN split_Sum(func)
              ELSE split_BlockSeparable(func)
    ELSE split_leaf(func)


(***************************************************************************)
(* Constructor calls.  A class is called with keyword arguments (a record);*)
(* a keyword the __init__ does not declare raises TypeError, a keyword     *)
(* left out takes the declared default.                                    *)
(***************************************************************************)
Arg(kw, name, default) == IF name \in DOMAIN kw THEN kw[name] ELSE default
Half == <<1, 2>>

Zero == [kind |-> "Zero"]
\* a transform matrix is known by where it comes from only
NoMat == [src |-> "none"]

GeneralizedRidge(pen_val, mat) ==
    [kind |-> "GeneralizedRidge", pen_val |-> pen_val, mat |-> mat]

ExclusiveGroupLasso(groups, pen_val) ==
    LET gs == IF groups = NoGroups THEN <<AllCoords>> ELSE groups
    IN  [kind |-> "ExclusiveGroupLasso", groups |-> gs,
         pen_funcs |-> [g \in 1..Len(gs) |->
                          [kind |-> "SquaredL1", mult |-> pen_val]]]

NuclearNorm(pen_val, weights) ==
    [kind |-> "NuclearNorm", pen_val |-> pen_val, weights |-> weights]

\* the keywords each __init__ declares
InitParams(cls) ==
    CASE cls = "Ridge" -> {"pen_val", "weights"}
      [] cls = "GeneralizedRidge" -> {"pen_val", "mat"}
      [] cls = "Lasso" -> {"pen_val", "weights"}
      [] cls = "GroupLasso" -> {"groups", "pen_val", "weights"}
      [] cls = "ExclusiveGroupLasso" -> {"groups", "pen_val"}
      [] cls = "NuclearNorm" -> {"pen_val", "weights"}
      [] cls = "MultiTaskLasso" -> {"pen_val", "weights"}
      [] cls = "GeneralizedLasso" -> {"pen_val", "mat", "weights"}
      [] cls = "ElasticNet" ->
             {"pen_val", "mix", "lasso_weights", "ridge_weights"}
      [] cls = "GroupElasticNet" ->
             {"groups", "pen_val", "mix_val", "lasso_weights"}
      [] cls = "MultiTaskElasticNet" ->
             {"pen_val", "mix_val", "lasso_weights"}
      [] cls = "SparseGroupLasso" ->
             {"groups", "pen_val", "mix_val", "sparse_weights",
              "group_weights"}

Construct(cls, kw) ==
    CASE cls = "Ridge" ->
             Ridge(Arg(kw, "pen_val", ROne), Arg(kw, "weights", NoWeights))
      [] cls = "GeneralizedRidge" ->
             GeneralizedRidge(Arg(kw, "pen_val", ROne), Arg(kw, "mat", NoMat))
      [] cls = "Lasso" ->
             Lasso(Arg(kw, "pen_val", ROne), Arg(kw, "weights", NoWeights))
      [] cls = "GroupLasso" ->
             GroupLasso(kw.groups, Arg(kw, "pen_val", ROne),
                        Arg(kw, "weights", NoWeights))
      [] cls = "ExclusiveGroupLasso" ->
             ExclusiveGroupLasso(kw.groups, Arg(kw, "pen_val", ROne))
      [] cls = "NuclearNorm" ->
             NuclearNorm(Arg(kw, "pen_val", ROne),
                         Arg(kw, "weights", NoWeights))
      [] cls = "MultiTaskLasso" ->
             MultiTaskLasso(Arg(kw, "pen_val", ROne),
                            Arg(kw, "weights", NoWeights))
      [] cls = "GeneralizedLasso" ->
             GeneralizedLasso(Arg(kw, "pen_val", ROne), Arg(kw, "mat", NoMat),
                              Arg(kw, "weights", NoWeights))
      [] cls = "ElasticNet" ->
             ElasticNet(Arg(kw, "pen_val", ROne), Arg(kw, "mix", Half),
                        Arg(kw, "lasso_weights", NoWeights),
                        Arg(kw, "ridge_weights", NoWeights))
      [] cls = "GroupElasticNet" ->
             GroupElasticNet(Arg(kw, "groups", NoGroups),
                             Arg(kw, "pen_val", ROne),
                             Arg(kw, "mix_val", ROne),
                             Arg(kw, "lasso_weights", NoWeights))
      [] cls = "MultiTaskElasticNet" ->
             MultiTaskElasticNet(Arg(kw, "pen_val", ROne),
                                 Arg(kw, "mix_val", ROne),
                                 Arg(kw, "lasso_weights", NoWeights))
      [] cls = "SparseGroupLasso" ->
             SparseGroupLasso(Arg(kw, "groups", NoGroups),
                              Arg(kw, "pen_val", ROne),
                              Arg(kw, "mix_val", Half),
                              Arg(kw, "sparse_weights", NoWeights),
                              Arg(kw, "group_weights", NoWeights))

New(cls, kw) ==
    IF DOMAIN kw \subseteq InitParams(cls)
    THEN Ok(Construct(cls, kw))
    ELSE Raised("TypeError",
                Msg("__init__() got an unexpected keyword argument",
                    CHOOSE k \in DOMAIN kw : k \notin InitParams(cls)))

(***************************************************************************)
(* Penalty specifications (ya_glm.config.penalty) and the factory          *)
(* get_penalty_func (ya_glm/opt/from_config/penalty.py)                    *)
(***************************************************************************)
NoFlavor == [kind |-> "none"]
Flavor(kind) ==
    [kind |-> kind, pen_func |-> "scad", second_param_val |-> RInt(3)]

\* a specification: its class (type) and the attributes the factory reads
Config(type) ==
    [type |-> type, flavor |-> NoFlavor, pen_val |-> ROne, mix_val |-> Half,
     weights |-> NoWeights, groups |-> NoGroups,
     lasso_weights |-> NoWeights, ridge_weights |-> NoWeights,
     sparse_weights |-> NoWeights, group_weights |-> NoWeights,
     mat |-> [src |-> "config"], penalties |-> <<>>, groups_of |-> <<>>]

get_flavor_kind(config) == config.flavor.kind
\* no specification at hand
NoConfig == Config("None")

get_nonconvex_func(name, pen_val, second_param) ==
    [kind |-> "NonConvex", name |-> name, pen_val |-> pen_val,
     second_param |-> second_param]

get_outer_nonconvex_func(config) ==
    IF get_flavor_kind(config) # "non_convex"
    THEN Raised("ValueError", Msg("Penalty is not non_convex", NoArg))
    ELSE Ok(get_nonconvex_func(config.flavor.pen_func, config.pen_val,
                               config.flavor.second_param_val))

get_fused_lasso_diff_mat(config, n_nodes) ==
    [src |-> "tf_mat", n_nodes |-> n_nodes]

CompositeGroup(groups, f) ==
    [kind |-> "CompositeGroup", groups |-> groups, func |-> f]
CompositeMultiTaskLasso(f) == [kind |-> "CompositeMultiTaskLasso", func |-> f]
CompositeNuclearNorm(f) == [kind |-> "CompositeNuclearNorm", func |-> f]
CompositeGeneralizedLasso(f, mat) ==
    [kind |-> "CompositeGeneralizedLasso", func |-> f, mat |-> mat]

\* the result r of a call, mapped through F when the call returned
Then(r, F(_)) == IF IsOk(r) THEN Ok(F(r.value)) ELSE r

NotImplemented(text, arg) == Raised("NotImplementedError", Msg(text, arg))

\* the first failed result of a sequence of results, or all their values
AllOk(rs) ==
    IF \E i \in 1..Len(rs) : IsRaised(rs[i])
    THEN rs[CHOOSE i \in 1..Len(rs) :
                /\ IsRaised(rs[i])
                /\ \A k \in 1..(i - 1) : IsOk(rs[k])]
    ELSE Ok([i \in 1..Len(rs) |-> rs[i].value])

RECURSIVE get_penalty_func(_, _)
get_penalty_func(config, n_features) ==
    LET flavor_kind == get_flavor_kind(config)
        t == config.type
        nc == get_outer_nonconvex_func(config)
    IN
    CASE t \in {"None", "NoPenalty"} -> Ok(Zero)
      [] t = "Ridge" ->
             New("Ridge", [pen_val |-> config.pen_val,
                           weights |-> config.weights])
      [] t = "GeneralizedRidge" ->
             New("GeneralizedRidge", [pen_val |-> config.pen_val,
                                      mat |-> config.mat])
      [] t = "Lasso" ->
             IF flavor_kind = "non_convex" THEN nc
             ELSE New("Lasso", [pen_val |-> config.pen_val,
                                weights |-> config.weights])
      [] t = "GroupLasso" ->
             IF flavor_kind = "non_convex"
             THEN Then(nc, LAMBDA f : CompositeGroup(config.groups, f))
             ELSE New("GroupLasso", [groups |-> config.groups,
                                     pen_val |-> config.pen_val,
                                     weights |-> config.weights])
      [] t = "ExclusiveGroupLasso" ->
             IF flavor_kind # "none" THEN NotImplemented("", NoArg)
             ELSE New("ExclusiveGroupLasso", [groups |-> config.groups,
                                              pen_val |-> config.pen_val])
      [] t = "MultiTaskLasso" ->
             IF flavor_kind = "non_convex"
             THEN Then(nc, LAMBDA f : CompositeMultiTaskLasso(f))
             ELSE New("MultiTaskLasso", [pen_val |-> config.pen_val,
                                         weights |-> config.weights])
      [] t = "NuclearNorm" ->
             IF flavor_kind = "non_convex"
             THEN Then(nc, LAMBDA f : CompositeNuclearNorm(f))
             ELSE New("NuclearNorm", [pen_val |-> config.pen_val,
                                      weights |-> config.weights])
      [] t \in {"FusedLasso", "GeneralizedLasso"} ->
             LET mat == IF t = "FusedLasso"
                        THEN get_fused_lasso_diff_mat(config, n_features)
                        ELSE config.mat
             IN  IF flavor_kind = "non_convex"
                 THEN Then(nc, LAMBDA f : CompositeGeneralizedLasso(f, mat))
                 ELSE New("GeneralizedLasso", [pen_val |-> config.pen_val,
                                               mat |-> mat,
                                               weights |-> config.weights])
      [] t = "ElasticNet" ->
             IF flavor_kind = "non_convex" THEN NotImplemented("TODO: add", NoArg)
             ELSE New("ElasticNet",
                      [pen_val |-> config.pen_val,
                       mix_val |-> config.mix_val,
                       lasso_weights |-> config.lasso_weights,
                       ridge_weights |-> config.ridge_weights])
      [] t = "GroupElasticNet" ->
             IF flavor_kind = "non_convex" THEN NotImplemented("TODO: add", NoArg)
             ELSE New("GroupElasticNet",
                      [groups |-> config.groups,
                       pen_val |-> config.pen_val,
                       mix_val |-> config.mix_val,
                       lasso_weights |-> config.lasso_weights,
                       ridge_weights |-> config.ridge_weights])
      [] t = "MultiTaskElasticNet" ->
             IF flavor_kind = "non_convex" THEN NotImplemented("TODO: add", NoArg)
             ELSE New("MultiTaskElasticNet",
                      [pen_val |-> config.pen_val,
                       mix_val |-> config.mix_val,
                       lasso_weights |-> config.lasso_weights,
                       ridge_weights |-> config.ridge_weights])
      [] t = "SparseGroupLasso" ->
             IF flavor_kind = "non_convex" THEN NotImplemented("TODO", NoArg)
             ELSE New("SparseGroupLasso",
                      [groups |-> config.groups,
                       pen_val |-> config.pen_val,
                       mix_val |-> config.mix_val,
                       sparse_weights |-> config.sparse_weights,
                       group_weights |-> config.group_weights])
      [] t = "OverlappingSum" ->
             Then(AllOk([i \in 1..Len(config.penalties) |->
                           get_penalty_func(config.penalties[i].config,
                                            n_features)]),
                  LAMBDA funcs : Sum(funcs))
      [] t = "SeparableSum" ->
             Then(AllOk([i \in 1..Len(config.penalties) |->
                           get_penalty_func(config.penalties[i].config,
                                            n_features)]),
                  LAMBDA funcs :
                      BlockSeparable(funcs,
                                     [i \in 1..Len(config.groups_of) |->
                                        config.groups_of[i].idxs]))
      [] OTHER ->
             NotImplemented("{} is not currently supported by ya_glm.opt.penalty",
                            t)

(***************************************************************************)
(* Collaborators of the adapter: the penalty specification's convex base,  *)
(* the non-convex penalty Func, the intercept wrapper, the loss Func and   *)
(* the convex solver, each by its contract                                 *)
(***************************************************************************)
\* penalty.get_base_convex(): a new specification, the convex majorizer
get_base_convex(penalty) == [penalty EXCEPT !.flavor = NoFlavor]

\* config.set_params(pen_val=v) on a specification
set_params_pen_val(c, v) == [c EXCEPT !.pen_val = v]

\* the SCAD function of parameters lam and a at t >= 0
scad(t, lam, a) ==
    IF ~RLess(lam, t) THEN RMul(lam, t)
    ELSE IF ~RLess(RMul(a, lam), t)
    THEN RDiv(RSub(RSub(RMul(RInt(2), RMul(a, RMul(lam, t))), RMul(t, t)),
                   RMul(lam, lam)),
              RMul(RInt(2), RSub(a, ROne)))
    ELSE RDiv(RMul(RMul(lam, lam), RAdd(a, ROne)), RInt(2))

NonConvex_eval(f, x) ==
    RTotal([i \in DOMAIN x |-> scad(RAbs(x[i]), f.pen_val, f.second_param)])

WithIntercept(f) == [kind |-> "WithIntercept", func |-> f]
MatWithIntercept(f) == [kind |-> "MatWithIntercept", func |-> f]

wrap_intercept(f, fit_intercept, is_mr) ==
    IF fit_intercept
    THEN IF is_mr THEN MatWithIntercept(f) ELSE WithIntercept(f)
    ELSE f

\* penalty_func_.eval(current): the wrapper leaves the leading coordinate
\* out of the penalty value
Penalty_eval(f, current) ==
    CASE f.kind = "WithIntercept" -> NonConvex_eval(f.func, Tail(current))
      [] f.kind = "NonConvex" -> NonConvex_eval(f, current)

\* the responses of the least-squares problem, the design being the identity
Resp == [i \in 1..Dim |-> RInt(i)]

get_glm_loss_func(config, fit_intercept) ==
    [kind |-> "LinReg", fit_intercept |-> fit_intercept]

\* loss_func_.eval(current): current is the intercept (if any), then coef
Loss_eval(f, current) ==
    LET coef == IF f.fit_intercept THEN Tail(current) ELSE current
        icpt == IF f.fit_intercept THEN Head(current) ELSE RZero
        resid == [i \in 1..Dim |-> RSub(Resp[i], RAdd(coef[i], icpt))]
    IN  RDiv(RTotal(Squares(resid)), RInt(2 * Dim))

safe_concat(upv, value) == <<upv>> \o value

\* the convex solver: setup, update_penalty(weights=...), solve
FreeSlot == [alloc |-> FALSE]
InitialSolver ==
    [alloc |-> TRUE, is_setup |-> FALSE, penalty |-> NoConfig,
     fit_intercept |-> FALSE, n_solves |-> 0]

Solver_setup(sv, penalty, fit_intercept) ==
    [sv EXCEPT !.is_setup = TRUE, !.penalty = penalty,
               !.fit_intercept = fit_intercept]

Solver_update_penalty_weights(sv, weights) ==
    [sv EXCEPT !.penalty.weights = weights]

\* the weighted lasso solution for the identity design, from the given
\* starting point: coef = soft_thresh(y - intercept, pen_val * weights)
Solver_solution(sv, coef_init, intercept_init) ==
    LET icpt == IF sv.fit_intercept THEN intercept_init ELSE RZero
        w == IF sv.penalty.weights = NoWeights THEN Broadcast(ROne, Resp)
             ELSE sv.penalty.weights
    IN  [coef |-> soft_thresh([i \in 1..Dim |-> RSub(Resp[i], icpt)],
                              [i \in 1..Dim |->
                                 RMul(sv.penalty.pen_val, w[i])]),
         intercept |-> icpt]

Solver_solve(sv) == [sv EXCEPT !.n_solves = @ + 1]

(***************************************************************************)
(* WeightedGlmProblemSolver (ya_glm/solver/LLA.py)                         *)
(* Objects live in heaps: solver objects in solvers, penalty               *)
(* specifications in pens; an adapter holds references into them.          *)
(***************************************************************************)
\* the solver object handed to WeightedGlmProblemSolver(solver=...)
UserSolver == 0

\* WeightedGlmProblemSolver.__init__
NewAdapter == [solver |-> UserSolver, is_setup |-> FALSE]

FirstFree(hp) ==
    CHOOSE i \in DOMAIN hp :
        /\ ~hp[i].alloc
        /\ \A j \in DOMAIN hp : j < i => hp[j].alloc

\* a call that hands back a reference, as (reference, heap after the call)
Ref(r, hp) == [ref |-> r, heap |-> hp]

\* a reference to the very same solver object instead of a copy
deepcopy_alias(hp, r) == Ref(r, hp)

\* deepcopy(self.solver): a new object with the same state
deepcopy(hp, r) ==
    Ref(FirstFree(hp), [hp EXCEPT ![FirstFree(hp)] = hp[r]])

\* rebinding self.solver_ drops the last reference to the clone it held
release(hp, ad) ==
    IF ad.is_setup THEN [hp EXCEPT ![ad.solver_] = FreeSlot] ELSE hp

\* the convex base penalty left at the strength of the specification
base_cvx_pen_config_keep(penalty) == get_base_convex(penalty)

\* setup, lines 56-57: the convex base penalty with pen_val = 1
base_cvx_pen_config(penalty) ==
    set_params_pen_val(get_base_convex(penalty), ROne)

\* the variant that leaves the intercept wrapper out
rebuild_penalty_func_bare(ad, penalty_config) ==
    LET r == get_penalty_func(penalty_config, Dim)
    IN  IF IsOk(r) THEN [penalty_func_ |-> r.value] @@ ad ELSE ad

\* update_penalty, lines 85-88, given the specification as it is now:
\* the adapter with penalty_func_ rebuilt (kept as it was if the factory raises)
rebuild_penalty_func(ad, penalty_config) ==
    LET r == get_penalty_func(penalty_config, Dim)
    IN  IF IsOk(r)
        THEN [penalty_func_ |-> wrap_intercept(r.value, ad.fit_intercept_,
                                               ad.is_mr_)] @@ ad
        ELSE ad

\* lines 151-155: loss and penalty at current, and their sum
\* (each value is computed once and bound)
objective_at(ad, current) ==
    CHOOSE r \in {<<RAdd(base_loss, pen_loss), base_loss, pen_loss>> :
                    base_loss \in {Loss_eval(ad.loss_func_, current)},
                    pen_loss \in {Penalty_eval(ad.penalty_func_, current)}} :
        TRUE

\* eval_objective with the intercept put after the coefficient
eval_objective_value_first(ad, value, upv) ==
    CHOOSE r \in {objective_at(ad, current) :
                    current \in {IF ad.fit_intercept_ THEN value \o <<upv>>
                                 ELSE value}} : TRUE

\* eval_objective, lines 145-155
eval_objective(ad, value, upv) ==
    CHOOSE r \in {objective_at(ad, current) :
                    current \in {IF ad.fit_intercept_
                                 THEN safe_concat(upv, value)
                                 ELSE value}} : TRUE

\* no LLAFixedInit object was made
NoLLA == [state |-> "NONE"]

(***************************************************************************)
(* State                                                                   *)
(***************************************************************************)
VARIABLES
    func,        \* splitter: the Func handed to split_smooth_and_non_smooth
    pt,          \* splitter: a point at which the parts are evaluated
    split_out,   \* splitter: what the call returned or raised
    config,      \* factory: the penalty specification at hand
    built,       \* factory: what assembling the Func returned or raised
    via,         \* factory: how the Func was assembled
    smooth_flag, \* factory: what reading is_smooth returned or raised
    prox_out,    \* factory: the last proximal_map call, with its result
    solvers,     \* adapter: the convex solver objects, by reference
    pens,        \* adapter: the penalty specification objects, by reference
    adapters,    \* adapter: the WeightedGlmProblemSolver objects
    pushed,      \* adapter: what each adapter asked of its solver_ so far
    obj_out,     \* adapter: the last eval_objective call, with its result
    solve_out,   \* adapter: the last solve call, what it asked of solver_
    lla,         \* LLA: the LLAFixedInit object and the solve call in progress
    tuning,      \* tuning: a penalty value sequence call, with its result
    cv,          \* estimators: the GlmCV object, the estimators it knows and
                 \* the fit call in progress
    glm          \* estimators: the Glm object and its last fit call

splitVars == <<func, pt, split_out>>
factoryVars == <<config, built, via, smooth_flag, prox_out>>
adapterVars == <<solvers, pens, adapters, pushed, obj_out, solve_out>>
llaVars == <<lla>>
tuningVars == <<tuning>>
fitVars == <<cv, glm>>
vars == <<func, pt, split_out, config, built, via, smooth_flag, prox_out,
          solvers, pens, adapters, pushed, obj_out, solve_out, lla, tuning,
          cv, glm>>
notSplitVars == <<factoryVars, adapterVars, llaVars, tuningVars, fitVars>>
notFactoryVars == <<splitVars, adapterVars, llaVars, tuningVars, fitVars>>
notAdapterVars == <<splitVars, factoryVars, llaVars, tuningVars, fitVars>>
notLLAVars == <<splitVars, factoryVars, tuningVars, fitVars>>
notTuningVars == <<splitVars, factoryVars, adapterVars, llaVars, fitVars>>
notFitVars == <<splitVars, factoryVars, adapterVars, llaVars, tuningVars>>
\* no tuning sequence call at hand
NoTuning == [fn |-> "none"]
\* no GlmCV object was made
NoGlmCV == [pc |-> "none"]
\* no Glm object was made
NoGlm == [pc |-> "none"]

(***************************************************************************)
(* Splitter: inputs and the call                                           *)
(***************************************************************************)
PenVals == {RInt(v) : v \in 1..MaxPenVal}
Points == {RVec(v) : v \in [1..Dim -> (-MaxCoord)..MaxCoord]}
LeafFuncs == {Ridge(pv, NoWeights) : pv \in PenVals}
             \cup {Lasso(pv, NoWeights) : pv \in PenVals}
SeqsUpTo(S, n) == UNION {[1..k -> S] : k \in 1..n}
SumFuncs == {Sum(fs) : fs \in SeqsUpTo(LeafFuncs, MaxFuncs)}

\* partitions of the coordinates 1..Dim into index groups
OneGroup == <<[i \in 1..Dim |-> i]>>
TwoGroups == <<<<1>>, [i \in 1..(Dim - 1) |-> i + 1]>>
Partitions == {OneGroup, TwoGroups, <<TwoGroups[2], TwoGroups[1]>>}
BlockFuncs ==
    UNION {{BlockSeparable(fs, gs) : fs \in [1..Len(gs) -> LeafFuncs]} :
             gs \in Partitions}
SplitInputs == SumFuncs \cup LeafFuncs \cup BlockFuncs

SplitInit ==
    /\ func \in SplitInputs
    /\ pt \in Points
    /\ split_out = NotCalled
    /\ config = NoConfig
    /\ built = NotCalled
    /\ via = "none"
    /\ smooth_flag = NotCalled
    /\ prox_out = NotCalled
    /\ solvers = <<>>
    /\ pens = <<>>
    /\ adapters = <<>>
    /\ pushed = <<>>
    /\ obj_out = NotCalled
    /\ solve_out = NotCalled
    /\ tuning = NoTuning
    /\ cv = NoGlmCV
    /\ glm = NoGlm
    /\ lla = NoLLA

Split ==
    /\ split_out = NotCalled
    /\ split_out' = split_smooth_and_non_smooth(func)
    /\ UNCHANGED <<func, pt>>
    /\ UNCHANGED notSplitVars

SplitNext == Split
SpecSplit == SplitInit /\ [][SplitNext]_vars

\* the children a returned part stands for
Children(part) ==
    IF part.kind = "None" THEN <<>>
    ELSE IF part.kind = "Sum" THEN part.funcs
    ELSE <<part>>

Count(s, e) == Cardinality({i \in 1..Len(s) : s[i] = e})
SameChildren(s, t) ==
    /\ Len(s) = Len(t)
    /\ \A i \in 1..Len(t) : Count(s, t[i]) = Count(t, t[i])

\* C1: splitting a Sum of Ridge and Lasso terms returns normally, the
\* children of the two returned parts are exactly the children of the Sum,
\* and eval(smooth) + eval(non_smooth) = eval(original) at every point.
C1_SplitSumComplete ==
    (func.kind = "Sum" /\ split_out # NotCalled) =>
        /\ IsOk(split_out)
        /\ SameChildren(Children(split_out.value.smooth)
                          \o Children(split_out.value.non_smooth),
                        func.funcs)
        /\ RAdd(Eval(split_out.value.smooth, pt),
                Eval(split_out.value.non_smooth, pt)) = Eval(func, pt)

IndexSet(group) == {group[k] : k \in 1..Len(group)}
IsPartition(groups) ==
    /\ \A i, j \in 1..Len(groups) :
          i # j => IndexSet(groups[i]) \cap IndexSet(groups[j]) = {}
    /\ UNION {IndexSet(groups[i]) : i \in 1..Len(groups)} = 1..Dim
PartitionedOrAbsent(part) ==
    part.kind = "BlockSeparable" => IsPartition(part.groups)

\* C13: every BlockSeparable the split of a BlockSeparable over a partition
\* returns has pairwise disjoint groups whose union is all of 1..Dim.
C13_BlockSeparablePartition ==
    (func.kind = "BlockSeparable" /\ IsOk(split_out)) =>
        /\ PartitionedOrAbsent(split_out.value.smooth)
        /\ PartitionedOrAbsent(split_out.value.non_smooth)

IsLeaf(f) == f.kind \notin {"Sum", "BlockSeparable"}

\* C18: the split of a leaf returns (the leaf, absent) when the leaf is
\* smooth and (absent, the leaf) when it is not; a non-smooth leaf never
\* comes back as (absent, absent).
C18_LeafSplit ==
    (IsLeaf(func) /\ split_out # NotCalled) =>
        /\ IsOk(split_out)
        /\ split_out.value =
             (IF is_smooth(func).value THEN SplitPair(func, None)
              ELSE SplitPair(None, func))

\* the (child, group) pairs of a BlockSeparable, in order
Pairs(part) ==
    IF part.kind = "None" THEN <<>>
    ELSE [k \in 1..Len(part.funcs) |-> <<part.funcs[k], part.groups[k]>>]
SmoothPair(p) == is_smooth(p[1]).value
NonSmoothPair(p) == ~is_smooth(p[1]).value

\* C19: the split of a BlockSeparable returns, as the smooth half, the
\* (child, group) pairs with a smooth child in their original order and, as
\* the non-smooth half, the remaining pairs in their original order; a half
\* is absent exactly when it has no pair.
C19_BlockSplitPairing ==
    (func.kind = "BlockSeparable" /\ split_out # NotCalled) =>
        /\ IsOk(split_out)
        /\ Pairs(split_out.value.smooth) = SelectSeq(Pairs(func), SmoothPair)
        /\ Pairs(split_out.value.non_smooth)
             = SelectSeq(Pairs(func), NonSmoothPair)
        /\ split_out.value.smooth.kind \in {"None", "BlockSeparable"}
        /\ split_out.value.non_smooth.kind \in {"None", "BlockSeparable"}
        /\ split_out.value.smooth = None
             <=> SelectSeq(Pairs(func), SmoothPair) = <<>>
        /\ split_out.value.non_smooth = None
             <=> SelectSeq(Pairs(func), NonSmoothPair) = <<>>
C19_Witness ==
    /\ func.kind = "BlockSeparable"
    /\ Len(func.funcs) = 2
    /\ is_smooth(func.funcs[1]).value
    /\ ~is_smooth(func.funcs[2]).value
    /\ IsOk(split_out)
    /\ split_out.value.smooth # None
    /\ split_out.value.non_smooth # None


(***************************************************************************)
(* Factory: specifications, assembling a Func, reading its smoothness      *)
(***************************************************************************)
\* the index groups and the weight vector a specification may carry
GroupChoices == {NoGroups, OneGroup, TwoGroups}
SomeWeights == [i \in 1..Dim |-> RInt(i)]
ConfigPenVals == {RInt(v) : v \in 0..MaxPenVal}
MixVals == {RZero, Half, <<3, 4>>, ROne}

FlavoredTypes == {"Lasso", "GroupLasso", "ExclusiveGroupLasso",
                  "MultiTaskLasso", "NuclearNorm", "FusedLasso",
                  "GeneralizedLasso", "ElasticNet", "GroupElasticNet",
                  "MultiTaskElasticNet", "SparseGroupLasso"}
PlainTypes == {"NoPenalty", "Ridge", "GeneralizedRidge", "Unknown"}
ENetTypes == {"ElasticNet", "GroupElasticNet", "MultiTaskElasticNet"}
MixedTypes == ENetTypes \cup {"SparseGroupLasso"}
GroupedTypes == {"GroupLasso", "ExclusiveGroupLasso", "GroupElasticNet",
                 "SparseGroupLasso"}
FlavorKinds == {"none", "adaptive", "non_convex"}

Configs ==
    {[Config(t) EXCEPT !.flavor = IF k = "none" THEN NoFlavor ELSE Flavor(k),
                       !.pen_val = pv,
                       !.mix_val = IF t \in MixedTypes THEN mx ELSE Half,
                       !.groups = IF t \in GroupedTypes THEN gs
                                  ELSE NoGroups,
                       !.ridge_weights = IF t \in ENetTypes THEN rw
                                         ELSE NoWeights] :
        t \in FlavoredTypes \cup PlainTypes, k \in FlavorKinds,
        pv \in ConfigPenVals, mx \in MixVals,
        rw \in {NoWeights, SomeWeights}, gs \in GroupChoices}

FactoryInputs ==
    {c \in Configs : c.type \in PlainTypes => c.flavor = NoFlavor}

\* the classes of convex.py, whose is_smooth property the model covers
ConvexKinds == {"Ridge", "GeneralizedRidge", "Lasso", "GroupLasso",
                "ExclusiveGroupLasso", "NuclearNorm", "MultiTaskLasso",
                "GeneralizedLasso", "ElasticNet", "GroupElasticNet",
                "MultiTaskElasticNet", "SparseGroupLasso"}

\* the classes of convex.py a caller can construct directly
DirectTypes == {"Ridge", "Lasso", "GroupLasso", "ExclusiveGroupLasso",
                "MultiTaskLasso", "NuclearNorm", "ElasticNet",
                "GroupElasticNet", "MultiTaskElasticNet", "SparseGroupLasso"}

\* the keywords of a direct call: the values of the specification under the
\* names the class declares, ridge weights passed only when requested
DirectKw(c) ==
    LET rw == IF c.ridge_weights = NoWeights THEN <<>>
              ELSE [ridge_weights |-> c.ridge_weights]
    IN
    CASE c.type \in {"Ridge", "Lasso", "MultiTaskLasso", "NuclearNorm"} ->
             [pen_val |-> c.pen_val, weights |-> c.weights]
      [] c.type = "GroupLasso" ->
             [groups |-> c.groups, pen_val |-> c.pen_val,
              weights |-> c.weights]
      [] c.type = "ExclusiveGroupLasso" ->
             [groups |-> c.groups, pen_val |-> c.pen_val]
      [] c.type = "ElasticNet" ->
             [pen_val |-> c.pen_val, mix |-> c.mix_val,
              lasso_weights |-> c.lasso_weights] @@ rw
      [] c.type = "GroupElasticNet" ->
             [groups |-> c.groups, pen_val |-> c.pen_val,
              mix_val |-> c.mix_val,
              lasso_weights |-> c.lasso_weights] @@ rw
      [] c.type = "MultiTaskElasticNet" ->
             [pen_val |-> c.pen_val, mix_val |-> c.mix_val,
              lasso_weights |-> c.lasso_weights] @@ rw
      [] c.type = "SparseGroupLasso" ->
             [groups |-> c.groups, pen_val |-> c.pen_val,
              mix_val |-> c.mix_val, sparse_weights |-> c.sparse_weights,
              group_weights |-> c.group_weights]

FactoryInit ==
    /\ func = None
    /\ pt = <<>>
    /\ split_out = NotCalled
    /\ config \in FactoryInputs
    /\ built = NotCalled
    /\ via = "none"
    /\ smooth_flag = NotCalled
    /\ prox_out = NotCalled
    /\ solvers = <<>>
    /\ pens = <<>>
    /\ adapters = <<>>
    /\ pushed = <<>>
    /\ obj_out = NotCalled
    /\ solve_out = NotCalled
    /\ tuning = NoTuning
    /\ cv = NoGlmCV
    /\ glm = NoGlm
    /\ lla = NoLLA

\* get_penalty_func(config)
Assemble ==
    /\ built = NotCalled
    /\ built' = get_penalty_func(config, Dim)
    /\ via' = "factory"
    /\ UNCHANGED <<config, smooth_flag, prox_out>>
    /\ UNCHANGED notFactoryVars

\* the class of an un-flavored specification called directly
ConstructDirect ==
    /\ built = NotCalled
    /\ config.type \in DirectTypes
    /\ config.flavor = NoFlavor
    /\ built' = New(config.type, DirectKw(config))
    /\ via' = "direct"
    /\ UNCHANGED <<config, smooth_flag, prox_out>>
    /\ UNCHANGED notFactoryVars

\* func.is_smooth
ReadIsSmooth ==
    /\ IsOk(built)
    /\ built.value.kind \in ConvexKinds
    /\ smooth_flag = NotCalled
    /\ smooth_flag' = is_smooth(built.value)
    /\ UNCHANGED <<config, built, via, prox_out>>
    /\ UNCHANGED notFactoryVars

\* the classes whose _prox the model covers, and the points they take
ProxKinds == {"Ridge", "Lasso", "GroupLasso", "MultiTaskLasso", "ElasticNet",
              "GroupElasticNet", "MultiTaskElasticNet", "SparseGroupLasso"}
MatrixKinds == {"MultiTaskLasso", "MultiTaskElasticNet"}
ProxVectors == {RVec(v) : v \in [1..Dim -> (-MaxProxCoord)..MaxProxCoord]}
ProxMatrices ==
    {[r \in 1..Dim |-> <<RInt(v[r])>>] : v \in [1..Dim -> (-1)..1]}
ProxPoints(f) == IF f.kind \in MatrixKinds THEN ProxMatrices ELSE ProxVectors
Steps == {RInt(v) : v \in 0..MaxStep}

\* every Euclidean norm the proximal map can take is a rational number
HasNorm(x) == HasRSqrt(RTotal(Squares(x)))
NormsRational(f, x, step) ==
    CASE f.kind = "GroupLasso" ->
             \A g \in 1..Len(f.groups) : HasNorm(SubVec(x, f.groups[g]))
      [] f.kind = "SparseGroupLasso" ->
             \A g \in 1..Len(f.group.groups) :
                 /\ HasNorm(SubVec(x, f.group.groups[g]))
                 /\ HasNorm(SubVec(Lasso_prox(f.sparse, x, step),
                                   f.group.groups[g]))
      [] f.kind = "MultiTaskLasso" -> \A r \in DOMAIN x : HasNorm(x[r])
      [] OTHER -> TRUE

\* func.prox(x, step)
ProximalMap ==
    /\ IsOk(built)
    /\ built.value.kind \in ProxKinds
    /\ prox_out = NotCalled
    /\ \E x \in ProxPoints(built.value), step \in Steps :
          /\ NormsRational(built.value, x, step)
          /\ prox_out' = [status |-> "called", x |-> x, step |-> step,
                          out |-> prox(built.value, x, step)]
    /\ UNCHANGED <<config, built, via, smooth_flag>>
    /\ UNCHANGED notFactoryVars

FactoryNext == Assemble \/ ConstructDirect \/ ReadIsSmooth \/ ProximalMap
SpecFactory == FactoryInit /\ [][FactoryNext]_vars

\* the family/flavor combinations the factory does not support
Unsupported(c) ==
    \/ c.type = "ExclusiveGroupLasso" /\ c.flavor # NoFlavor
    \/ /\ c.type \in ENetTypes \cup {"SparseGroupLasso"}
       /\ c.flavor.kind = "non_convex"
    \/ c.type = "Unknown"

\* C2: an unsupported family/flavor combination makes get_penalty_func raise
\* at assembly, and the error names the unsupported combination.
C2_FactoryFailFast ==
    (via = "factory" /\ Unsupported(config)) =>
        /\ IsRaised(built)
        /\ built.exc = "NotImplementedError"
        /\ built.msg.arg = config.type


\* C7: for ElasticNet, GroupElasticNet and MultiTaskElasticNet, reading
\* is_smooth returns True when pen_val * mix is exactly zero and False
\* otherwise.
C7_ENetSmoothFlag ==
    (smooth_flag # NotCalled /\ config.type \in ENetTypes) =>
        /\ IsOk(smooth_flag)
        /\ smooth_flag.value = (RMul(config.pen_val, config.mix_val) = RZero)

\* C9: ridge weights requested for a member of the elastic-net family are
\* rejected with an error when the Func is assembled.
C9_WeightedRidgeRejected ==
    (via # "none" /\ config.type \in ENetTypes
       /\ config.ridge_weights # NoWeights) => IsRaised(built)


ProxCalled == prox_out # NotCalled

\* C6: proximal_map(x, step=0) equals x for every supported family, and
\* with pen_val = 0 proximal_map(x, step) equals x for every step.
C6_ProxIdentity ==
    (ProxCalled /\ (prox_out.step = RZero \/ config.pen_val = RZero)) =>
        /\ IsOk(prox_out.out)
        /\ prox_out.out.value = prox_out.x

\* the closed forms of the specification, from the parameters of the
\* specification: entrywise soft-threshold at t, block threshold at m
RefSoft(x, t) ==
    [i \in DOMAIN x |->
        IF RLess(t, x[i]) THEN RSub(x[i], t)
        ELSE IF RLess(x[i], RSub(RZero, t)) THEN RAdd(x[i], t)
        ELSE RZero]

RefGroups(c) == IF c.groups = NoGroups THEN OneGroup ELSE c.groups
GroupOf(c, i) ==
    RefGroups(c)[CHOOSE g \in 1..Len(RefGroups(c)) :
                     \E k \in 1..Len(RefGroups(c)[g]) :
                         RefGroups(c)[g][k] = i]

RefBlock(c, x, m) ==
    [i \in DOMAIN x |->
        LET n == euclid_norm(SubVec(x, GroupOf(c, i)))
        IN  IF RLess(m, n) THEN RDiv(RMul(x[i], RSub(n, m)), n) ELSE RZero]

SparseThresh(c, step) == RMul(step, RMul(c.pen_val, c.mix_val))
GroupThresh(c, step) == RMul(step, RMul(c.pen_val, RSub(ROne, c.mix_val)))

SoftThenBlock(c, x, step) ==
    RefBlock(c, RefSoft(x, SparseThresh(c, step)), GroupThresh(c, step))
BlockThenSoft(c, x, step) ==
    RefSoft(RefBlock(c, x, GroupThresh(c, step)), SparseThresh(c, step))

\* C8: SparseGroupLasso.proximal_map(x, step) is the group block-threshold
\* of the entrywise soft-threshold of x, at the same step.
C8_SGLProxOrder ==
    (ProxCalled /\ config.type = "SparseGroupLasso") =>
        /\ IsOk(prox_out.out)
        /\ prox_out.out.value = SoftThenBlock(config, prox_out.x, prox_out.step)

\* a SparseGroupLasso proximal map on a point where the two orders differ
C8_Witness ==
    /\ ProxCalled
    /\ config.type = "SparseGroupLasso"
    /\ IsOk(prox_out.out)
    /\ SoftThenBlock(config, prox_out.x, prox_out.step)
         # BlockThenSoft(config, prox_out.x, prox_out.step)
    /\ prox_out.out.value = SoftThenBlock(config, prox_out.x, prox_out.step)


(***************************************************************************)
(* Adapter: two adapters built from one solver object                      *)
(***************************************************************************)
AdapterIds == 1..NumAdapters
PenIds == 1..NumPens
SolverIds == 0..MaxClones

\* a non-convex (SCAD) Lasso specification of strength pv
NonConvexLasso(pv) ==
    [Config("Lasso") EXCEPT !.flavor = Flavor("non_convex"), !.pen_val = pv]

WeightChoices == {[i \in 1..Dim |-> ROne], SomeWeights}
EvalValues == {RVec(v) : v \in [1..Dim -> {0, MaxCoord}]}
EvalUpvs == {RZero, ROne}
NothingPushed == [weights |-> NoWeights, n_solves |-> 0]

AdapterInit ==
    /\ func = None
    /\ pt = <<>>
    /\ split_out = NotCalled
    /\ config = NoConfig
    /\ built = NotCalled
    /\ via = "none"
    /\ smooth_flag = NotCalled
    /\ prox_out = NotCalled
    /\ solvers = [i \in SolverIds |->
                    IF i = UserSolver THEN InitialSolver ELSE FreeSlot]
    /\ pens \in [PenIds -> {NonConvexLasso(pv) : pv \in ConfigPenVals}]
    /\ adapters = [a \in AdapterIds |-> NewAdapter]
    /\ pushed = [a \in AdapterIds |-> NothingPushed]
    /\ obj_out = NotCalled
    /\ solve_out = NotCalled
    /\ tuning = NoTuning
    /\ cv = NoGlmCV
    /\ glm = NoGlm
    /\ lla = NoLLA

\* the body of setup: adapter a, the specification object p, and whether
\* the response y has several columns
WeightedGlmProblemSolver_setup_y(a, p, fit_intercept, is_mr) ==
    LET cp == deepcopy(solvers, adapters[a].solver)
        ad == [solver |-> adapters[a].solver,
               is_setup |-> TRUE,
               solver_ |-> cp.ref,
               loss_func_ |-> get_glm_loss_func("lin_reg", fit_intercept),
               is_mr_ |-> is_mr,
               fit_intercept_ |-> fit_intercept,
               penalty_config_ |-> p]
    IN  /\ solvers' = [release(cp.heap, adapters[a]) EXCEPT ![cp.ref] =
                         Solver_setup(@, base_cvx_pen_config(pens[p]),
                                      fit_intercept)]
        /\ adapters' = [adapters EXCEPT ![a] =
                          rebuild_penalty_func(ad, pens[p])]
        /\ pushed' = [pushed EXCEPT ![a] = NothingPushed]

\* setup on the single-response data Resp
WeightedGlmProblemSolver_setup(a, p, fit_intercept) ==
    WeightedGlmProblemSolver_setup_y(a, p, fit_intercept, FALSE)

\* WeightedGlmProblemSolver.setup(X, y, loss, penalty, fit_intercept)
Setup(a) ==
    /\ \E i \in SolverIds : ~solvers[i].alloc
    /\ \E p \in PenIds, fit_intercept \in BOOLEAN :
          WeightedGlmProblemSolver_setup(a, p, fit_intercept)
    /\ UNCHANGED <<pens, obj_out, solve_out>>
    /\ UNCHANGED notAdapterVars

\* the body of update_penalty(pen_val=v)
WeightedGlmProblemSolver_update_penalty(a, v) ==
    LET p == adapters[a].penalty_config_
        c == set_params_pen_val(pens[p], v)
    IN  /\ pens' = [pens EXCEPT ![p] = c]
        /\ adapters' = [adapters EXCEPT ![a] = rebuild_penalty_func(@, c)]

\* WeightedGlmProblemSolver.update_penalty(pen_val=v)
UpdatePenalty(a) ==
    /\ adapters[a].is_setup
    /\ \E v \in ConfigPenVals :
          WeightedGlmProblemSolver_update_penalty(a, v)
    /\ UNCHANGED <<solvers, pushed, obj_out, solve_out>>
    /\ UNCHANGED notAdapterVars

\* the body of solve(weights, ...): what the call does to solver_
WeightedGlmProblemSolver_solve(a, weights) ==
    /\ solvers' = [solvers EXCEPT ![adapters[a].solver_] =
                     Solver_solve(Solver_update_penalty_weights(@, weights))]
    /\ pushed' = [pushed EXCEPT ![a] =
                    [weights |-> weights, n_solves |-> @.n_solves + 1]]

\* what solve(weights, sp_init, sp_upv_init) returns: coef and intercept
WeightedGlmProblemSolver_solve_result(a, weights, sp_init, sp_upv_init) ==
    Solver_solution(
        Solver_update_penalty_weights(solvers[adapters[a].solver_], weights),
        sp_init, sp_upv_init)

\* WeightedGlmProblemSolver.solve(weights, ...)
Solve(a) ==
    /\ adapters[a].is_setup
    /\ solvers[adapters[a].solver_].n_solves < MaxSolves
    /\ \E weights \in WeightChoices :
          WeightedGlmProblemSolver_solve(a, weights)
    /\ UNCHANGED <<pens, adapters, obj_out, solve_out>>
    /\ UNCHANGED notAdapterVars

\* WeightedGlmProblemSolver.eval_objective(value, upv)
EvalObjective(a) ==
    /\ adapters[a].is_setup
    /\ HasAttr(adapters[a], "penalty_func_")
    /\ \E value \in EvalValues, upv \in EvalUpvs :
          obj_out' = [status |-> "called", self |-> adapters[a],
                      value |-> value, upv |-> upv,
                      result |-> eval_objective(adapters[a], value, upv)]
    /\ UNCHANGED <<solvers, pens, adapters, pushed, solve_out>>
    /\ UNCHANGED notAdapterVars

\* adapters built from the same solver object, set up, updated and solved
\* in any interleaving
AdapterNext ==
    \E a \in AdapterIds : Setup(a) \/ UpdatePenalty(a) \/ Solve(a)
SpecAdapter == AdapterInit /\ [][AdapterNext]_vars

\* one adapter, its penalty updated and its objective evaluated
ObjectiveNext ==
    \E a \in {1} : Setup(a) \/ UpdatePenalty(a) \/ EvalObjective(a)
SpecObjective == AdapterInit /\ [][ObjectiveNext]_vars

\* C3: the penalty held by every adapter's solver_ has pen_val exactly 1,
\* after setup and after every later update_penalty and solve.
C3_UnitStrength ==
    \A a \in AdapterIds :
        adapters[a].is_setup =>
            solvers[adapters[a].solver_].penalty.pen_val = ROne

\* an adapter whose specification has a strength other than 1, after it
\* pushed weights and solved
C3_Witness ==
    \E a \in AdapterIds :
        /\ adapters[a].is_setup
        /\ pens[adapters[a].penalty_config_].pen_val # ROne
        /\ pushed[a].n_solves > 0
        /\ solvers[adapters[a].solver_].penalty.pen_val = ROne


\* C4: the solver handed to the adapters is never set up, re-weighted or
\* solved; every adapter works on a copy of its own, which holds exactly the
\* weights and solves that this adapter asked for.
C4_CloneIsolation ==
    /\ solvers[UserSolver] = InitialSolver
    /\ \A a \in AdapterIds :
           adapters[a].is_setup =>
               /\ adapters[a].solver_ # adapters[a].solver
               /\ solvers[adapters[a].solver_].is_setup
               /\ solvers[adapters[a].solver_].penalty.weights
                    = pushed[a].weights
               /\ solvers[adapters[a].solver_].n_solves = pushed[a].n_solves
    /\ \A a, b \in AdapterIds :
           (a # b /\ adapters[a].is_setup /\ adapters[b].is_setup) =>
               adapters[a].solver_ # adapters[b].solver_

\* two adapters of the same solver object, both set up, with different
\* weights pushed and different numbers of solves
C4_Witness ==
    \E a, b \in AdapterIds :
        /\ a # b
        /\ adapters[a].is_setup /\ adapters[b].is_setup
        /\ adapters[a].solver = adapters[b].solver
        /\ pushed[a].n_solves > pushed[b].n_solves
        /\ pushed[b].n_solves > 0
        /\ pushed[a].weights # pushed[b].weights

\* the objective from its definition: the least-squares loss of the
\* coefficient value and intercept upv, plus the SCAD penalty of value alone
RefLoss(value, upv, fit_intercept) ==
    RDiv(RTotal([i \in 1..Dim |->
                   LET r == RSub(RSub(Resp[i], value[i]),
                                 IF fit_intercept THEN upv ELSE RZero)
                   IN  RMul(r, r)]),
         RInt(2 * Dim))

RefPenalty(value, nc) ==
    RTotal([i \in 1..Dim |->
              scad(RAbs(value[i]), nc.pen_val, nc.second_param)])

\* the non-convex Func inside the bookkeeping penalty of an adapter
Bookkept(ad) ==
    IF ad.fit_intercept_ THEN ad.penalty_func_.func ELSE ad.penalty_func_

\* C10: eval_objective returns (total, base_loss, pen_loss) with
\* total = base_loss + pen_loss, loss and penalty evaluated at upv followed
\* by value when an intercept is fit and at value alone otherwise, and the
\* call changes no adapter state.
C10_EvalObjective ==
    /\ [](obj_out # NotCalled =>
            /\ obj_out.result[1] = RAdd(obj_out.result[2], obj_out.result[3])
            /\ obj_out.result[2]
                 = RefLoss(obj_out.value, obj_out.upv,
                           obj_out.self.fit_intercept_)
            /\ obj_out.result[3]
                 = RefPenalty(obj_out.value, Bookkept(obj_out.self)))
    /\ [][obj_out' # obj_out =>
            UNCHANGED <<solvers, pens, adapters, pushed>>]_vars

\* an objective evaluated with an intercept, at a point where the order of
\* intercept and coefficient matters
C10_Witness ==
    /\ obj_out # NotCalled
    /\ obj_out.self.fit_intercept_
    /\ obj_out.upv # obj_out.value[Dim]
    /\ obj_out.result[3] # RZero
    /\ obj_out.result[2] # RZero

(***************************************************************************)
(* LLAFixedInit (ya_glm/solver/LLA.py) and the LLA loop it delegates to    *)
(***************************************************************************)
\* a tolerance that is None, an unpenalized variable that is None
NoTol == <<>>
NoUpv == <<>>
DefaultNSteps == 1
DefaultXtol == <<1, 10000>>

\* the variables of the loop when no solve call is in progress
NoRun ==
    [step |-> 0, start_solves |-> 0, current |-> <<>>, current_upv |-> NoUpv,
     obj |-> RZero]

\* LLAFixedInit.__init__(n_steps=1, xtol=1e-4, atol=None, rtol=None)
LLAFixedInit(kw) ==
    [state |-> "IDLE", is_setup |-> FALSE,
     n_steps |-> Arg(kw, "n_steps", DefaultNSteps),
     xtol |-> Arg(kw, "xtol", DefaultXtol),
     atol |-> Arg(kw, "atol", NoTol),
     rtol |-> Arg(kw, "rtol", NoTol),
     out |-> NotCalled] @@ NoRun

\* set_sp_solver: sp_solver_ is the adapter made for the solver at hand
sp_solver_ == 1

\* penalty.get_transf_nonconex_penalty(): the outer non-convex function
get_transf_nonconex_penalty(penalty) == get_outer_nonconvex_func(penalty).value

\* the derivative of the SCAD function of parameters lam and a at t >= 0
scad_grad(t, lam, a) ==
    IF ~RLess(lam, t) THEN lam
    ELSE IF ~RLess(RMul(a, lam), t)
    THEN RDiv(RSub(RMul(a, lam), t), RSub(a, ROne))
    ELSE RZero

\* step 1 of an iteration: one weight per transformed coordinate
lla_weights(penalty_func, current) ==
    [i \in DOMAIN current |->
       scad_grad(RAbs(current[i]), penalty_func.pen_val,
                 penalty_func.second_param)]

\* the largest absolute coordinate change between two iterates
max_abs_change(x, y) == RMaxOf([i \in DOMAIN x |-> RAbs(RSub(x[i], y[i]))])

\* step 5 of an iteration: the stopping criteria that are set
x_stop(self, current, prev) ==
    self.xtol # NoTol /\ RLess(max_abs_change(current, prev), self.xtol)

obj_stop(self, obj, prev_obj) ==
    \/ self.atol # NoTol /\ RLess(RAbs(RSub(prev_obj, obj)), self.atol)
    \/ /\ self.rtol # NoTol
       /\ RLess(RAbs(RSub(prev_obj, obj)), RMul(self.rtol, RAbs(prev_obj)))

\* the variant that allows one iteration more than the budget
lla_next_state_late(self, step, stop) ==
    IF stop THEN "CONVERGED"
    ELSE IF step > self.n_steps THEN "MAX_STEPS_REACHED"
    ELSE "ITERATING"

\* the state after an iteration
lla_next_state(self, step, stop) ==
    IF stop THEN "CONVERGED"
    ELSE IF step >= self.n_steps THEN "MAX_STEPS_REACHED"
    ELSE "ITERATING"

Running == {"INITIALIZED", "ITERATING"}
Terminal == {"CONVERGED", "MAX_STEPS_REACHED"}

\* no solve call of the LLAFixedInit object is in progress
NotInCall(self) ==
    \/ self.state = "IDLE"
    \/ self.state \in Terminal \cup {"FAILED"} /\ self.out # NotCalled

\* what solve_lla hands back once the loop has stopped
solve_lla_result(self) ==
    <<self.current, self.current_upv, None,
      [iter |-> self.step, stop |-> self.state]>>

\* solve that raises when the step budget ran out
LLAFixedInit_solve_return_strict(r) ==
    IF r[4].stop = "MAX_STEPS_REACHED"
    THEN Raised("ConvergenceError", Msg("LLA did not converge", NoArg))
    ELSE Ok(<<[coef |-> r[1], intercept |-> r[2]], r[3], r[4]>>)

\* LLAFixedInit.solve, lines 262-273: the result of solve_lla handed on
LLAFixedInit_solve_return(r) ==
    Ok(<<[coef |-> r[1], intercept |-> r[2]], r[3], r[4]>>)

InitCoefs == {[i \in 1..Dim |-> RZero], [i \in 1..Dim |-> RInt(MaxCoord)]}
Tolerances ==
    {<<>>, [xtol |-> NoTol], [xtol |-> NoTol, atol |-> <<1, 10>>],
     [xtol |-> NoTol, rtol |-> <<1, 10>>]}
LLAKws ==
    Tolerances \cup
    {[n_steps |-> n] @@ t : n \in 1..MaxNSteps, t \in Tolerances}

\* the penalty specification objects handed to LLAFixedInit.setup
LLAPenIds == {CHOOSE p \in PenIds : \A q \in PenIds : p <= q}

LLAInit ==
    /\ func = None
    /\ pt = <<>>
    /\ split_out = NotCalled
    /\ config = NoConfig
    /\ built = NotCalled
    /\ via = "none"
    /\ smooth_flag = NotCalled
    /\ prox_out = NotCalled
    /\ solvers = [i \in SolverIds |->
                    IF i = UserSolver THEN InitialSolver ELSE FreeSlot]
    /\ \E pv \in ConfigPenVals : pens = [p \in PenIds |-> NonConvexLasso(pv)]
    /\ adapters = [a \in AdapterIds |-> NewAdapter]
    /\ pushed = [a \in AdapterIds |-> NothingPushed]
    /\ obj_out = NotCalled
    /\ solve_out = NotCalled
    /\ tuning = NoTuning
    /\ cv = NoGlmCV
    /\ glm = NoGlm
    /\ lla \in {LLAFixedInit(kw) : kw \in LLAKws}

\* LLAFixedInit.setup(X, y, loss, penalty, fit_intercept)
LLASetup ==
    /\ NotInCall(lla)
    /\ \E i \in SolverIds : ~solvers[i].alloc
    /\ \E p \in LLAPenIds, fit_intercept \in BOOLEAN, coef_init \in InitCoefs :
          /\ WeightedGlmProblemSolver_setup(sp_solver_, p, fit_intercept)
          /\ lla' = [is_setup |-> TRUE,
                     state |-> "IDLE",
                     out |-> NotCalled,
                     transform_ |-> "abs",
                     transf_penalty_func_ |->
                         get_transf_nonconex_penalty(pens[p]),
                     coef_init_lla_ |-> coef_init,
                     intercept_init_lla_ |-> RZero] @@ lla
    /\ UNCHANGED <<pens, obj_out, solve_out>>
    /\ UNCHANGED notLLAVars

\* LLAFixedInit.update_penalty(pen_val=v)
LLAUpdatePenalty ==
    /\ NotInCall(lla)
    /\ lla.is_setup
    /\ \E v \in ConfigPenVals :
          WeightedGlmProblemSolver_update_penalty(sp_solver_, v)
    /\ UNCHANGED <<solvers, pushed, obj_out, solve_out, lla>>
    /\ UNCHANGED notLLAVars

\* LLAFixedInit.solve(), lines 256-271: the loop is entered at the
\* initializer of the penalty specification
LLASolveCall ==
    /\ NotInCall(lla)
    /\ lla.is_setup
    /\ pushed[sp_solver_].n_solves + lla.n_steps <= MaxSubSolves
    /\ LET ad == adapters[sp_solver_]
           init_upv == IF ad.fit_intercept_ THEN lla.intercept_init_lla_
                       ELSE NoUpv
       IN  lla' = [state |-> "INITIALIZED",
                   out |-> NotCalled,
                   step |-> 0,
                   start_solves |-> pushed[sp_solver_].n_solves,
                   current |-> lla.coef_init_lla_,
                   current_upv |-> init_upv,
                   obj |-> eval_objective(ad, lla.coef_init_lla_, init_upv)[1]]
                  @@ lla
    /\ UNCHANGED <<solvers, pens, adapters, pushed, obj_out, solve_out>>
    /\ UNCHANGED notLLAVars

\* one iteration of the loop: reweight, solve the subproblem from the
\* previous iterate, evaluate the objective, check stopping
LLAStep ==
    /\ lla.state \in Running
    /\ \E ad \in {adapters[sp_solver_]} :
       \E weights \in {lla_weights(lla.transf_penalty_func_, lla.current)} :
       \E soln \in {WeightedGlmProblemSolver_solve_result(
                        sp_solver_, weights, lla.current, lla.current_upv)} :
       \E upv \in {IF ad.fit_intercept_ THEN soln.intercept ELSE NoUpv} :
       \E obj \in {eval_objective(ad, soln.coef, upv)[1]} :
       \E stop \in {\/ x_stop(lla, soln.coef, lla.current)
                    \/ obj_stop(lla, obj, lla.obj)} :
          /\ WeightedGlmProblemSolver_solve(sp_solver_, weights)
          /\ lla' = [lla EXCEPT
                       !.step = @ + 1,
                       !.current = soln.coef,
                       !.current_upv = upv,
                       !.obj = obj,
                       !.state = lla_next_state(lla, lla.step + 1, stop)]
    /\ UNCHANGED <<pens, adapters, obj_out, solve_out>>
    /\ UNCHANGED notLLAVars

\* LLAFixedInit.solve(), lines 262-273: the call returns
LLAReturn ==
    /\ lla.state \in Terminal
    /\ lla.out = NotCalled
    /\ lla' = [out |-> LLAFixedInit_solve_return(solve_lla_result(lla))]
                 @@ NoRun @@ lla
    /\ UNCHANGED adapterVars
    /\ UNCHANGED notLLAVars

LLANext ==
    LLASetup \/ LLAUpdatePenalty \/ LLASolveCall \/ LLAStep \/ LLAReturn
SpecLLA == LLAInit /\ [][LLANext]_vars
\* every delegated convex solve returns
FairSpecLLA == SpecLLA /\ WF_vars(LLAStep)

\* the subproblem solves issued since the solve call in progress began
SolvesOfRun == pushed[sp_solver_].n_solves - lla.start_solves

\* C5: an LLA solve started from INITIALIZED reaches CONVERGED or
\* MAX_STEPS_REACHED after at most n_steps subproblem solves, issues no
\* subproblem solve once it is in a terminal state, and MAX_STEPS_REACHED is
\* returned as a normal result.
C5_LLATermination ==
    /\ (lla.state = "INITIALIZED") ~> (lla.state \in Terminal)
    /\ [](lla.state \in Running \cup Terminal /\ lla.out = NotCalled =>
            /\ SolvesOfRun <= lla.n_steps
            /\ lla.state = "MAX_STEPS_REACHED" => SolvesOfRun = lla.n_steps)
    /\ [][lla.state \in Terminal =>
            /\ pushed'[sp_solver_].n_solves <= pushed[sp_solver_].n_solves
            /\ lla'.state # "ITERATING"]_vars
    /\ [](lla.state \in Terminal /\ lla.out # NotCalled => IsOk(lla.out))

\* a run with a budget of several steps that used all of them without
\* converging and returned
C5_Witness ==
    /\ lla.state = "MAX_STEPS_REACHED"
    /\ lla.n_steps > 1
    /\ lla.xtol # NoTol
    /\ IsOk(lla.out)
    /\ lla.out.value[3].iter = lla.n_steps


(***************************************************************************)
(* WeightedGlmProblemSolver.solve: what one call asks of solver_           *)
(***************************************************************************)
\* an initializer that is None
NoInit == <<>>
\* a weight that is not finite (np.inf), and a value that is not a number
Inf == <<1, 0>>
NaN == <<0, 0>>
IsFinite(r) == r[2] # 0
AllFinite(w) == \A i \in DOMAIN w : IsFinite(w[i])

\* what the convex solver hands back besides the solution
OtherData == [kind |-> "dual"]
OptInfo == [kind |-> "opt_info"]
SolverFailure == Raised("SolverError", Msg("convex solve failed", NoArg))

\* the convex solver's solve(coef_init, intercept_init, other_init):
\* (soln, other_data, opt_info), or a failure
Solver_solve_call(sv, coef_init, intercept_init, other_init, fails) ==
    IF fails THEN SolverFailure
    ELSE Ok(<<IF AllFinite(sv.penalty.weights)
              THEN Solver_solution(sv, coef_init,
                                   IF intercept_init = NoInit THEN RZero
                                   ELSE intercept_init)
              ELSE [coef |-> [i \in 1..Dim |-> NaN], intercept |-> NaN],
              OtherData, OptInfo>>)

\* a call on solver_, as the solver sees it
UpdatePenaltyCall(weights) == [op |-> "update_penalty", weights |-> weights]
SolveCall(sv, coef_init, intercept_init, other_init) ==
    [op |-> "solve", coef_init |-> coef_init,
     intercept_init |-> intercept_init, other_init |-> other_init,
     weights |-> sv.penalty.weights]

\* solve that runs the solver before it pushes the weights
WeightedGlmProblemSolver_solve_call_stale(sv, weights, sp_init, sp_upv_init, sp_other_data, fails) ==
    LET inner == Solver_solve_call(sv, sp_init, sp_upv_init, sp_other_data,
                                   fails)
    IN  [calls |-> <<SolveCall(sv, sp_init, sp_upv_init, sp_other_data),
                     UpdatePenaltyCall(weights)>>,
         solver_ |-> Solver_update_penalty_weights(Solver_solve(sv), weights),
         result |-> IF IsOk(inner)
                    THEN Ok(<<inner.value[1].coef, inner.value[1].intercept,
                              inner.value[2]>>)
                    ELSE inner]

\* solve, lines 114-123, on the solver object sv that solver_ refers to:
\* the calls made on solver_ in order, solver_ afterwards, and what the
\* call returns or raises
WeightedGlmProblemSolver_solve_call(sv, weights, sp_init, sp_upv_init, sp_other_data, fails) ==
    LET sv1 == Solver_update_penalty_weights(sv, weights)
        inner == Solver_solve_call(sv1, sp_init, sp_upv_init, sp_other_data,
                                   fails)
    IN  [calls |-> <<UpdatePenaltyCall(weights),
                     SolveCall(sv1, sp_init, sp_upv_init, sp_other_data)>>,
         solver_ |-> Solver_solve(sv1),
         result |-> IF IsOk(inner)
                    THEN Ok(<<inner.value[1].coef, inner.value[1].intercept,
                              inner.value[2]>>)
                    ELSE inner]

AnyWeights ==
    WeightChoices \cup {[i \in 1..Dim |-> IF i = 1 THEN Inf ELSE ROne]}
\* warm starts: none, all three given, the coefficient alone
WarmStarts ==
    {<<NoInit, NoInit, None>>,
     <<[i \in 1..Dim |-> RZero], ROne, OtherData>>,
     <<[i \in 1..Dim |-> RZero], NoInit, None>>}

\* WeightedGlmProblemSolver.solve(weights, sp_init, sp_upv_init,
\* sp_other_data), the inner solve returning or failing
SolveWith(a) ==
    /\ adapters[a].is_setup
    /\ solvers[adapters[a].solver_].n_solves < MaxSolves
    /\ \E weights \in AnyWeights, ws \in WarmStarts, fails \in BOOLEAN :
       \E sp_init \in {ws[1]}, sp_upv_init \in {ws[2]},
          sp_other_data \in {ws[3]} :
       \E c \in {WeightedGlmProblemSolver_solve_call(
                     solvers[adapters[a].solver_], weights, sp_init,
                     sp_upv_init, sp_other_data, fails)} :
          /\ solvers' = [solvers EXCEPT ![adapters[a].solver_] = c.solver_]
          /\ pushed' = [pushed EXCEPT ![a] =
                          [weights |-> weights, n_solves |-> @.n_solves + 1]]
          /\ solve_out' = [status |-> "called", adapter |-> a,
                           before |-> solvers[adapters[a].solver_],
                           weights |-> weights, sp_init |-> sp_init,
                           sp_upv_init |-> sp_upv_init,
                           sp_other_data |-> sp_other_data, fails |-> fails,
                           calls |-> c.calls, result |-> c.result]
    /\ UNCHANGED <<pens, adapters, obj_out>>
    /\ UNCHANGED notAdapterVars

\* one adapter, set up and asked to solve with any arguments
SolveNext == \E a \in {1} : Setup(a) \/ SolveWith(a)
SpecSolve == AdapterInit /\ [][SolveNext]_vars

\* the solve that the call's arguments ask for, on the solver as it was
\* before the call with the given weights in place
RefInner ==
    Solver_solve_call(
        Solver_update_penalty_weights(solve_out.before, solve_out.weights),
        solve_out.sp_init, solve_out.sp_upv_init, solve_out.sp_other_data,
        solve_out.fails)

\* C11: a solve call first pushes exactly the given weights into solver_,
\* then runs solver_'s solve exactly once with the given initializers and
\* with those weights in effect, and returns (coef, intercept, other_data)
\* of that solve; a failure of the inner solve is raised as it is, with no
\* second solve.
C11_SolveOrdering ==
    /\ [](solve_out # NotCalled =>
            /\ solve_out.calls
                 = <<[op |-> "update_penalty", weights |-> solve_out.weights],
                     [op |-> "solve", coef_init |-> solve_out.sp_init,
                      intercept_init |-> solve_out.sp_upv_init,
                      other_init |-> solve_out.sp_other_data,
                      weights |-> solve_out.weights]>>
            /\ solve_out.fails => solve_out.result = SolverFailure
            /\ ~solve_out.fails =>
                  solve_out.result
                    = Ok(<<RefInner.value[1].coef,
                           RefInner.value[1].intercept, RefInner.value[2]>>))
    /\ [][solve_out' # solve_out =>
            LET sv == solvers'[adapters[solve_out'.adapter].solver_]
            IN  /\ sv.penalty.weights = solve_out'.weights
                /\ sv.n_solves = solve_out'.before.n_solves + 1]_vars

\* a second solve call with other weights than the first, which returned
C11_Witness ==
    /\ solve_out # NotCalled
    /\ ~solve_out.fails
    /\ solve_out.before.n_solves > 0
    /\ solve_out.before.penalty.weights # solve_out.weights
    /\ AllFinite(solve_out.weights)
    /\ solve_out.sp_upv_init # NoInit
    /\ IsOk(solve_out.result)

\* C15: weights that are not finite never reach solver_: a solve call
\* handed such weights raises before it calls update_penalty or solve.
C15_NonFiniteWeightsRejected ==
    /\ \A a \in AdapterIds :
          adapters[a].is_setup =>
              AllFinite(solvers[adapters[a].solver_].penalty.weights)
    /\ (solve_out # NotCalled /\ ~AllFinite(solve_out.weights)) =>
          (IsRaised(solve_out.result) /\ solve_out.calls = <<>>)


(***************************************************************************)
(* The LLA loop when a delegated convex solve fails                        *)
(***************************************************************************)
\* the failure of the subproblem solve of iteration k, as the loop hands it
\* on: the same exception, with the iteration index
at_iteration(failure, k) == [iteration |-> k] @@ failure

\* solve that catches the failure and returns an empty solution
LLAFixedInit_solve_propagate_swallow(failure) ==
    Ok(<<[coef |-> None, intercept |-> None], None, None>>)

\* LLAFixedInit.solve, lines 262-271: nothing catches what solve_lla raises
LLAFixedInit_solve_propagate(failure) == failure

\* an iteration whose subproblem solve fails: the weights were pushed and
\* the solve was asked for; the failure leaves solve_lla and solve at once
LLAStepFails ==
    /\ lla.state \in Running
    /\ \E ad \in {adapters[sp_solver_]} :
       \E weights \in {lla_weights(lla.transf_penalty_func_, lla.current)} :
       \E c \in {WeightedGlmProblemSolver_solve_call(
                     solvers[ad.solver_], weights, lla.current,
                     lla.current_upv, None, TRUE)} :
          /\ WeightedGlmProblemSolver_solve(sp_solver_, weights)
          /\ lla' = [state |-> "FAILED",
                     out |-> LLAFixedInit_solve_propagate(
                                 at_iteration(c.result, lla.step))]
                    @@ NoRun @@ lla
    /\ UNCHANGED <<pens, adapters, obj_out, solve_out>>
    /\ UNCHANGED notLLAVars

LLAFailNext ==
    \/ LLASetup
    \/ LLAUpdatePenalty
    \/ LLASolveCall
    \/ LLAStep
    \/ LLAStepFails
    \/ LLAReturn
SpecLLAFail == LLAInit /\ [][LLAFailNext]_vars

\* C16: when the delegated convex solve fails during iteration k, the LLA
\* solve issues no further subproblem solve, returns no solution, and the
\* failure that reaches the caller of LLAFixedInit.solve is the solver's,
\* carrying the iteration index k.
C16_FailurePropagation ==
    /\ [](lla.state = "FAILED" =>
            /\ IsRaised(lla.out)
            /\ lla.out.exc = SolverFailure.exc
            /\ lla.out.msg = SolverFailure.msg)
    /\ [][(lla'.state = "FAILED" /\ lla.state \in Running) =>
            /\ lla'.out.iteration = SolvesOfRun
            /\ pushed'[sp_solver_].n_solves
                 = pushed[sp_solver_].n_solves + 1]_vars
    /\ [][lla.state = "FAILED" =>
            /\ pushed'[sp_solver_].n_solves <= pushed[sp_solver_].n_solves
            /\ lla'.state \in {"FAILED", "IDLE", "INITIALIZED"}]_vars

\* a run whose second iteration failed
C16_Witness ==
    /\ lla.state = "FAILED"
    /\ IsRaised(lla.out)
    /\ lla.out.iteration = 1
    /\ lla.n_steps > 2


(***************************************************************************)
(* What each convex penalty class provides (ya_glm/opt/penalty/convex.py)  *)
(***************************************************************************)
\* the methods and attributes a class defines besides _eval: _prox, _grad
\* and the Lipschitz constant _grad_lip set by __init__
Provides(kind) ==
    CASE kind = "Ridge" -> {"_prox", "_grad", "_grad_lip"}
      [] kind = "GeneralizedRidge" -> {"_grad", "_grad_lip"}
      [] kind = "Lasso" -> {"_prox"}
      [] kind = "GroupLasso" -> {"_prox"}
      [] kind = "ExclusiveGroupLasso" -> {"_prox"}
      [] kind = "NuclearNorm" -> {"_prox"}
      [] kind = "MultiTaskLasso" -> {"_prox"}
      [] kind = "GeneralizedLasso" -> {}
      [] kind = "ElasticNet" -> {"_grad", "_prox"}
      [] kind = "GroupElasticNet" -> {"_grad", "_prox"}
      [] kind = "MultiTaskElasticNet" -> {"_grad", "_prox"}
      [] kind = "SparseGroupLasso" -> {"_prox"}
      [] OTHER -> {}

\* C12: a Func the factory returns that reports is_smooth = True provides a
\* gradient and grad_lip, and one that reports is_smooth = False provides a
\* proximal map.
C12_FuncCapability ==
    (/\ via = "factory"
     /\ IsOk(built)
     /\ built.value.kind \in ConvexKinds
     /\ IsOk(is_smooth(built.value))) =>
        IF is_smooth(built.value).value
        THEN {"_grad", "_grad_lip"} \subseteq Provides(built.value.kind)
        ELSE "_prox" \in Provides(built.value.kind)


(***************************************************************************)
(* SeparableSum specifications: a mapping from name to child               *)
(* specification and a mapping from name to index group, each a sequence   *)
(* of entries in the order its values() are iterated                       *)
(***************************************************************************)
BlockNames == <<"a", "b">>
Orders == {<<1, 2>>, <<2, 1>>}
ChildConfigs ==
    {[Config(t) EXCEPT !.pen_val = pv] : t \in {"Ridge", "Lasso"},
                                         pv \in PenVals}
SeparableSumConfig(children, po, go) ==
    [Config("SeparableSum") EXCEPT
       !.penalties = [k \in 1..2 |-> [name |-> BlockNames[po[k]],
                                      config |-> children[po[k]]]],
       !.groups_of = [k \in 1..2 |-> [name |-> BlockNames[go[k]],
                                      idxs |-> TwoGroups[go[k]]]]]
SeparableInputs ==
    {SeparableSumConfig(cs, po, go) :
       cs \in [1..2 -> ChildConfigs], po \in Orders, go \in Orders}

SeparableInit ==
    /\ func = None
    /\ pt = <<>>
    /\ split_out = NotCalled
    /\ config \in SeparableInputs
    /\ built = NotCalled
    /\ via = "none"
    /\ smooth_flag = NotCalled
    /\ prox_out = NotCalled
    /\ solvers = <<>>
    /\ pens = <<>>
    /\ adapters = <<>>
    /\ pushed = <<>>
    /\ obj_out = NotCalled
    /\ solve_out = NotCalled
    /\ tuning = NoTuning
    /\ cv = NoGlmCV
    /\ glm = NoGlm
    /\ lla = NoLLA

SeparableNext == Assemble
SpecSeparable == SeparableInit /\ [][SeparableNext]_vars

\* the entry a mapping holds under a name
EntryOf(mapping, n) ==
    mapping[CHOOSE k \in 1..Len(mapping) : mapping[k].name = n]

\* C20: the BlockSeparable built from a SeparableSum specification holds,
\* for every name n, the Func built from the child registered under n
\* together with the index group registered under n, whatever the iteration
\* orders of the two mappings.
C20_SeparablePairing ==
    (config.type = "SeparableSum" /\ built # NotCalled) =>
        /\ IsOk(built)
        /\ built.value.kind = "BlockSeparable"
        /\ \A n \in {config.penalties[k].name :
                       k \in 1..Len(config.penalties)} :
             \E k \in 1..Len(built.value.funcs) :
                /\ Ok(built.value.funcs[k])
                     = get_penalty_func(EntryOf(config.penalties, n).config,
                                        Dim)
                /\ built.value.groups[k] = EntryOf(config.groups_of, n).idxs


(***************************************************************************)
(* The proximal map of a Lasso applied twice at the same step              *)
(***************************************************************************)
LassoConfigs ==
    {[Config("Lasso") EXCEPT !.pen_val = pv, !.weights = w] :
       pv \in ConfigPenVals, w \in {NoWeights, SomeWeights}}

ProxInit ==
    /\ func = None
    /\ pt = <<>>
    /\ split_out = NotCalled
    /\ config \in LassoConfigs
    /\ built = NotCalled
    /\ via = "none"
    /\ smooth_flag = NotCalled
    /\ prox_out = NotCalled
    /\ solvers = <<>>
    /\ pens = <<>>
    /\ adapters = <<>>
    /\ pushed = <<>>
    /\ obj_out = NotCalled
    /\ solve_out = NotCalled
    /\ tuning = NoTuning
    /\ cv = NoGlmCV
    /\ glm = NoGlm
    /\ lla = NoLLA

\* func.prox(func.prox(x, step), step)
ProximalMapAgain ==
    /\ prox_out # NotCalled
    /\ "again" \notin DOMAIN prox_out
    /\ IsOk(prox_out.out)
    /\ prox_out' = [again |-> prox(built.value, prox_out.out.value,
                                   prox_out.step)] @@ prox_out
    /\ UNCHANGED <<config, built, via, smooth_flag>>
    /\ UNCHANGED notFactoryVars

ProxNext == ConstructDirect \/ ProximalMap \/ ProximalMapAgain
SpecProx == ProxInit /\ [][ProxNext]_vars

AppliedTwice == prox_out # NotCalled /\ "again" \in DOMAIN prox_out
\* the threshold step * pen_val * w of coordinate i
ThreshOf(f, step, i) ==
    IF f.weights = NoWeights THEN RMul(step, f.pen_val)
    ELSE RMul(RMul(step, f.pen_val), f.weights[i])
KeepsSigns ==
    \A i \in 1..Dim : RSign(prox_out.out.value[i]) = RSign(prox_out.x[i])
\* every entry is sent to zero by the threshold or has threshold zero
ZeroedOrUntouched ==
    \A i \in 1..Dim :
        \/ ThreshOf(built.value, prox_out.step, i) = RZero
        \/ ~RLess(ThreshOf(built.value, prox_out.step, i),
                  RAbs(prox_out.x[i]))

\* C17 as stated: for a Lasso and every x whose entries keep their sign
\* under thresholding, prox(prox(x, s), s) = prox(x, s).
C17_SoftThreshIdempotent ==
    (AppliedTwice /\ KeepsSigns) => prox_out.again = prox_out.out

\* C17 as amended: for a Lasso and every x each of whose entries is sent to
\* zero by the threshold (|x_i| <= t_i) or has threshold t_i = 0,
\* prox(prox(x, s), s) = prox(x, s).
C17_SoftThreshIdempotentWhenZeroed ==
    (AppliedTwice /\ ZeroedOrUntouched) => prox_out.again = prox_out.out
C17_Witness ==
    /\ AppliedTwice
    /\ ZeroedOrUntouched
    /\ \E i \in 1..Dim : prox_out.x[i] # RZero /\ prox_out.out.value[i] = RZero
    /\ prox_out.again = prox_out.out


(***************************************************************************)
(* Penalty value tuning sequences (ya_glm/GlmCV.py).  An array is known by *)
(* its number of axes and its entries: a sequence of numbers, or a         *)
(* sequence of rows of equal length.  Penalty values lie on an integer     *)
(* grid.                                                                   *)
(***************************************************************************)
\* a 1-D array is kept as its one row
Arr1(v) == [ndim |-> 1, rows |-> <<v>>]
Arr2(rows) == [ndim |-> 2, rows |-> rows]
\* pen_vals, or the generated array, that is None
NoArray == [ndim |-> 0, rows |-> <<>>]
\* an l1 ratio, or a sequence of l1 ratios, that is None
NoRatio == <<>>
NoRatioSeq == <<>>
Entries(a) == a.rows[1]

RECURSIVE Insert(_, _)
Insert(e, s) ==
    IF s = <<>> THEN <<e>>
    ELSE IF e <= Head(s) THEN <<e>> \o s
    ELSE <<Head(s)>> \o Insert(e, Tail(s))
RECURSIVE SortAsc(_)
SortAsc(s) == IF s = <<>> THEN <<>> ELSE Insert(Head(s), SortAsc(Tail(s)))
Reverse(s) == [k \in 1..Len(s) |-> s[Len(s) + 1 - k]]
RECURSIVE Flatten(_)
Flatten(rows) ==
    IF rows = <<>> THEN <<>> ELSE Head(rows) \o Flatten(Tail(rows))

\* np.sort(a): ascending along the last axis
np_sort(a) ==
    [a EXCEPT !.rows = [r \in 1..Len(a.rows) |-> SortAsc(a.rows[r])]]
\* a[::-1]: the first axis reversed
first_axis_reversed(a) ==
    IF a.ndim = 1 THEN Arr1(Reverse(Entries(a)))
    ELSE Arr2(Reverse(a.rows))
\* a.reshape(-1)
reshape_flat(a) == Arr1(Flatten(a.rows))

\* get_pen_val_seq; generated is what get_sequence_decr_max returns
get_pen_val_seq(pen_vals, generated) ==
    LET pen_val_seq == IF pen_vals = NoArray THEN generated ELSE pen_vals
    IN  Ok(first_axis_reversed(np_sort(pen_val_seq)))

\* l1_ratio_min <= np.finfo(float).eps; no ratio drawn lies in (0, eps]
AtMostEps(r) == ~RLess(RZero, r)
RECURSIVE RMinOf(_)
RMinOf(w) ==
    IF Len(w) = 1 THEN w[1]
    ELSE IF RLess(w[1], RMinOf(Tail(w))) THEN w[1] ELSE RMinOf(Tail(w))

AssertionError == Raised("AssertionError", Msg("", NoArg))

\* get_enet_pen_val_seq; generated is the array of the sequences
\* get_sequence_decr_max returns, one row per l1 ratio when the ratio is
\* tuned
get_enet_pen_val_seq(pen_vals, l1_ratio_seq, l1_ratio_val, generated) ==
    LET tune_l1_ratio == l1_ratio_val = NoRatio
        l1_ratio_min == IF tune_l1_ratio THEN RMinOf(l1_ratio_seq)
                        ELSE l1_ratio_val
        vals == IF pen_vals # NoArray THEN pen_vals ELSE generated
    IN  IF pen_vals = NoArray /\ AtMostEps(l1_ratio_min)
        THEN Raised("ValueError",
                    Msg("Unable to set pen_val_seq using default", NoArg))
        ELSE IF tune_l1_ratio
        THEN IF vals.ndim # 2 \/ Len(vals.rows) # Len(l1_ratio_seq)
             THEN AssertionError
             ELSE Ok(Arr2([r \in 1..Len(vals.rows) |->
                             Reverse(SortAsc(vals.rows[r]))]))
        ELSE Ok(reshape_flat(first_axis_reversed(np_sort(vals))))

PenGrid == 0..MaxPenVal
Seqs1D == UNION {[1..n -> PenGrid] : n \in 1..MaxSeqLen}
Arrays1D == {Arr1(v) : v \in Seqs1D}
Arrays2D ==
    UNION {{Arr2(rows) : rows \in [1..nr -> [1..nc -> PenGrid]]} :
             nr \in 1..2, nc \in 1..2} \ {Arr2(<<<<v>>>>) : v \in PenGrid}
UserPenVals == {NoArray} \cup Arrays1D \cup Arrays2D
RatioVals == {RZero, Half, ROne}
RatioSeqs == {<<ROne>>, <<Half, ROne>>, <<ROne, RZero>>}
NPenVals == 1..2

TuningCall(fn, pen_vals, n_pen_vals, l1_ratio_seq, l1_ratio_val) ==
    [fn |-> fn, pen_vals |-> pen_vals, n_pen_vals |-> n_pen_vals,
     l1_ratio_seq |-> l1_ratio_seq, l1_ratio_val |-> l1_ratio_val,
     generated |-> NoArray, out |-> NotCalled]
TuningCalls ==
    {TuningCall("get_pen_val_seq", pv, n, NoRatioSeq, NoRatio) :
        pv \in UserPenVals, n \in NPenVals}
    \cup {TuningCall("get_enet_pen_val_seq", pv, n, NoRatioSeq, rv) :
            pv \in UserPenVals, n \in NPenVals, rv \in RatioVals}
    \cup {TuningCall("get_enet_pen_val_seq", pv, n, rs, NoRatio) :
            pv \in UserPenVals, n \in NPenVals, rs \in RatioSeqs}

TuningInit ==
    /\ func = None
    /\ pt = <<>>
    /\ split_out = NotCalled
    /\ config = NoConfig
    /\ built = NotCalled
    /\ via = "none"
    /\ smooth_flag = NotCalled
    /\ prox_out = NotCalled
    /\ solvers = <<>>
    /\ pens = <<>>
    /\ adapters = <<>>
    /\ pushed = <<>>
    /\ obj_out = NotCalled
    /\ solve_out = NotCalled
    /\ lla = NoLLA
    /\ tuning \in TuningCalls
    /\ cv = NoGlmCV
    /\ glm = NoGlm

\* what get_sequence_decr_max may return: num values
GeneratedSeqs(num) == {Arr1(v) : v \in [1..num -> PenGrid]}
GeneratedRows(n_rows, num) ==
    {Arr2(rows) : rows \in [1..n_rows -> [1..num -> PenGrid]]}

GetPenValSeq ==
    /\ tuning.fn = "get_pen_val_seq"
    /\ tuning.out = NotCalled
    /\ \E g \in (IF tuning.pen_vals = NoArray
                 THEN GeneratedSeqs(tuning.n_pen_vals) ELSE {NoArray}) :
          tuning' = [tuning EXCEPT
                       !.generated = g,
                       !.out = get_pen_val_seq(tuning.pen_vals, g)]
    /\ UNCHANGED notTuningVars

GetENetPenValSeq ==
    /\ tuning.fn = "get_enet_pen_val_seq"
    /\ tuning.out = NotCalled
    /\ \E g \in (IF tuning.pen_vals # NoArray THEN {NoArray}
                 ELSE IF tuning.l1_ratio_val # NoRatio
                 THEN GeneratedSeqs(tuning.n_pen_vals)
                 ELSE GeneratedRows(Len(tuning.l1_ratio_seq),
                                    tuning.n_pen_vals)) :
          tuning' = [tuning EXCEPT
                       !.generated = g,
                       !.out = get_enet_pen_val_seq(tuning.pen_vals,
                                                    tuning.l1_ratio_seq,
                                                    tuning.l1_ratio_val, g)]
    /\ UNCHANGED notTuningVars

TuningNext == GetPenValSeq \/ GetENetPenValSeq
SpecTuning == TuningInit /\ [][TuningNext]_vars

NonIncreasing(s) == \A i \in 1..(Len(s) - 1) : s[i] >= s[i + 1]
IsPermutation(s, t) ==
    /\ Len(s) = Len(t)
    /\ \A i \in 1..Len(t) : Count(s, t[i]) = Count(t, t[i])
SourceSeq == IF tuning.pen_vals = NoArray THEN tuning.generated
             ELSE tuning.pen_vals

\* C14: whenever it returns, get_pen_val_seq returns the user's pen_vals (the
\* generated sequence when pen_vals is None) permuted into non-increasing
\* order, read entry by entry, and get_enet_pen_val_seq returns a 1-D
\* non-increasing sequence when the l1 ratio is fixed and a matrix with one
\* non-increasing row per l1 ratio when it is tuned.
C14_PenSeqOrdering ==
    (tuning.fn # "none" /\ IsOk(tuning.out)) =>
        LET out == tuning.out.value
        IN  IF tuning.fn = "get_pen_val_seq"
            THEN /\ NonIncreasing(Flatten(out.rows))
                 /\ IsPermutation(Flatten(out.rows), Flatten(SourceSeq.rows))
            ELSE IF tuning.l1_ratio_val # NoRatio
            THEN out.ndim = 1 /\ NonIncreasing(Entries(out))
            ELSE /\ out.ndim = 2
                 /\ Len(out.rows) = Len(tuning.l1_ratio_seq)
                 /\ \A r \in 1..Len(out.rows) : NonIncreasing(out.rows[r])


(***************************************************************************)
(* The elastic-net family through the factory and its proximal map         *)
(***************************************************************************)
\* C21: for every ElasticNet, GroupElasticNet and MultiTaskElasticNet
\* specification that is not non-convex, get_penalty_func returns the Func
\* of that class, with lasso strength pen_val * mix_val and ridge strength
\* pen_val * (1 - mix_val).
C21_FactoryBuildsENet ==
    (via = "factory" /\ config.type \in ENetTypes
       /\ config.flavor.kind # "non_convex") =>
        /\ IsOk(built)
        /\ built.value.kind = config.type
        /\ built.value.lasso.pen_val = RMul(config.pen_val, config.mix_val)
        /\ built.value.ridge.pen_val
             = RMul(config.pen_val, RSub(ROne, config.mix_val))

\* the lasso part's block soft-threshold of x at step
LassoPartProx(f, x, step) ==
    IF f.kind = "MultiTaskElasticNet" THEN MultiTaskLasso_prox(f.lasso, x, step)
    ELSE GroupLasso_prox(f.lasso, x, step)

\* C22: for GroupElasticNet and MultiTaskElasticNet with unweighted ridge,
\* proximal_map(x, step) with step > 0 returns the lasso part's block
\* soft-threshold of x at that step, divided by 1 + step * ridge strength.
C22_GroupENetProx ==
    (ProxCalled /\ IsOk(built)
       /\ built.value.kind \in {"GroupElasticNet", "MultiTaskElasticNet"}
       /\ built.value.ridge.weights = NoWeights
       /\ RLess(RZero, prox_out.step)) =>
        /\ IsOk(prox_out.out)
        /\ prox_out.out.value
             = Ridge_prox(built.value.ridge,
                          LassoPartProx(built.value, prox_out.x,
                                        prox_out.step),
                          prox_out.step)


(***************************************************************************)
(* Adapters sharing a penalty specification object; the bookkeeping        *)
(* penalty against the function LLA reweights with                         *)
(***************************************************************************)
\* C26: a parameter change made through one adapter's update_penalty is not
\* observable through another adapter set up from the same specification
\* object: in a step that leaves an adapter alone, the parameters of its
\* penalty_config_ stay as they were.
C26_NoSpecAliasing ==
    [][\A b \in AdapterIds :
          (adapters[b].is_setup /\ adapters'[b] = adapters[b]) =>
              pens'[adapters[b].penalty_config_]
                = pens[adapters[b].penalty_config_]]_vars

\* the penalty Func under the intercept wrapper, if any
Unwrapped(f) ==
    IF f.kind \in {"WithIntercept", "MatWithIntercept"} THEN f.func ELSE f

\* C23: after LLAFixedInit.setup and any update_penalty calls, the
\* non-convex function the next solve computes the LLA weights with has the
\* parameters of the bookkeeping penalty eval_objective uses.
C23_ReweightingConsistent ==
    (lla.is_setup /\ HasAttr(adapters[sp_solver_], "penalty_func_")) =>
        lla.transf_penalty_func_
          = Unwrapped(adapters[sp_solver_].penalty_func_)


(***************************************************************************)
(* update_penalty of one adapter set up on single- or multi-response data  *)
(***************************************************************************)
FrameInit ==
    /\ func = None
    /\ pt = <<>>
    /\ split_out = NotCalled
    /\ config = NoConfig
    /\ built = NotCalled
    /\ via = "none"
    /\ smooth_flag = NotCalled
    /\ prox_out = NotCalled
    /\ solvers = [i \in SolverIds |->
                    IF i = UserSolver THEN InitialSolver ELSE FreeSlot]
    /\ pens = [p \in PenIds |-> NonConvexLasso(ROne)]
    /\ adapters = [a \in AdapterIds |-> NewAdapter]
    /\ pushed = [a \in AdapterIds |-> NothingPushed]
    /\ obj_out = NotCalled
    /\ solve_out = NotCalled
    /\ tuning = NoTuning
    /\ cv = NoGlmCV
    /\ glm = NoGlm
    /\ lla = NoLLA

\* WeightedGlmProblemSolver.setup(X, y, loss, penalty, fit_intercept), y a
\* vector or a matrix
SetupData(a) ==
    /\ \E i \in SolverIds : ~solvers[i].alloc
    /\ \E p \in PenIds, fit_intercept \in BOOLEAN, is_mr \in BOOLEAN :
          WeightedGlmProblemSolver_setup_y(a, p, fit_intercept, is_mr)
    /\ UNCHANGED <<pens, obj_out, solve_out>>
    /\ UNCHANGED notAdapterVars

FrameNext == \E a \in {1} : SetupData(a) \/ UpdatePenalty(a) \/ Solve(a)
SpecFrame == FrameInit /\ [][FrameNext]_vars

\* what is kept of an adapter when its penalty_func_ is rebuilt
KeptOf(ad) ==
    IF ad.is_setup
    THEN <<ad.solver_, ad.loss_func_, ad.is_mr_, ad.fit_intercept_,
           ad.penalty_config_>>
    ELSE <<>>

\* C24: a step that changes a bookkeeping penalty specification (an
\* update_penalty call) asks nothing of the cloned convex solver and keeps
\* loss_func_, is_mr_ and fit_intercept_; and the penalty_func_ of the
\* adapter is always the Func of its specification as it is now, under
\* MatWithIntercept when fit_intercept_ and is_mr_, under WithIntercept when
\* fit_intercept_ only, and bare otherwise.
C24_UpdatePenaltyFrame ==
    /\ [][pens' # pens =>
            /\ solvers' = solvers
            /\ pushed' = pushed
            /\ KeptOf(adapters'[1]) = KeptOf(adapters[1])]_vars
    /\ [](adapters[1].is_setup =>
            /\ HasAttr(adapters[1], "penalty_func_")
            /\ adapters[1].penalty_func_.kind =
                 (IF ~adapters[1].fit_intercept_ THEN "NonConvex"
                  ELSE IF adapters[1].is_mr_ THEN "MatWithIntercept"
                  ELSE "WithIntercept")
            /\ Ok(Unwrapped(adapters[1].penalty_func_))
                 = get_penalty_func(pens[adapters[1].penalty_config_], Dim))
\* an adapter on multi-response data with an intercept, its penalty updated
\* away from the strength it was set up with, after a solve
C24_Witness ==
    /\ adapters[1].is_setup
    /\ adapters[1].fit_intercept_
    /\ adapters[1].is_mr_
    /\ pens[adapters[1].penalty_config_].pen_val # ROne
    /\ adapters[1].penalty_func_.kind = "MatWithIntercept"
    /\ pushed[1].n_solves > 0


(***************************************************************************)
(* The stopping rule of the LLA loop                                       *)
(***************************************************************************)
\* a criterion that is set is met between the iterates prev and current
XtolMet(self, current, prev) ==
    /\ self.xtol # NoTol
    /\ \A i \in DOMAIN current :
          RLess(RAbs(RSub(current[i], prev[i])), self.xtol)
AtolMet(self, obj, prev_obj) ==
    self.atol # NoTol /\ RLess(RAbs(RSub(prev_obj, obj)), self.atol)
RtolMet(self, obj, prev_obj) ==
    /\ self.rtol # NoTol
    /\ RLess(RAbs(RSub(prev_obj, obj)), RMul(self.rtol, RAbs(prev_obj)))

\* C25: an iteration ends CONVERGED exactly when a criterion that is set is
\* met at it (a criterion that is None never is), otherwise it ends
\* MAX_STEPS_REACHED when it was iteration n_steps and ITERATING before
\* that; a run that stops MAX_STEPS_REACHED has made exactly n_steps
\* subproblem solves, and a run with the default n_steps has made exactly
\* one reweighting round and one subproblem solve when it stops.
C25_LLAStoppingRule ==
    /\ [][(lla.state \in Running /\ lla'.step = lla.step + 1) =>
            lla'.state =
              (IF \/ XtolMet(lla, lla'.current, lla.current)
                  \/ AtolMet(lla, lla'.obj, lla.obj)
                  \/ RtolMet(lla, lla'.obj, lla.obj)
               THEN "CONVERGED"
               ELSE IF lla'.step >= lla.n_steps THEN "MAX_STEPS_REACHED"
               ELSE "ITERATING")]_vars
    /\ [](lla.state = "MAX_STEPS_REACHED" /\ lla.out = NotCalled =>
            SolvesOfRun = lla.n_steps /\ lla.step = lla.n_steps)
    /\ [](/\ lla.state \in Terminal
          /\ lla.out = NotCalled
          /\ lla.n_steps = DefaultNSteps
          => SolvesOfRun = 1 /\ lla.step = 1)
\* a run without xtol that converged on the objective after more than one
\* iteration and within its budget
C25_Witness ==
    /\ lla.state = "CONVERGED"
    /\ lla.out = NotCalled
    /\ lla.xtol = NoTol
    /\ lla.step > 1
    /\ lla.step < lla.n_steps
    /\ SolvesOfRun = lla.step



(***************************************************************************)
(* GlmCV: fit, step by step, and the methods that need a fitted object     *)
(***************************************************************************)
\* the estimator objects a GlmCV object can come to know: the base estimator
\* self.estimator and one clone for every fit call
BaseEst == 1
EstIds == 1..(MaxFits + 1)
TuneVals == 1..MaxPenVal
\* the penalty value sequences _set_tuning_values can set: decreasing
TuneSeqs ==
    {s \in SeqsUpTo(TuneVals, MaxTuneLen) :
       \A i \in 1..(Len(s) - 1) : s[i] > s[i + 1]}
NoParams == [pen_val |-> 0]
NoEst == 0
FreeEst == [alloc |-> FALSE, pen_val |-> 0, fitted |-> FALSE,
            n_set_params |-> 0, n_fit |-> 0]
NewEst(pen_val) == [alloc |-> TRUE, pen_val |-> pen_val, fitted |-> FALSE,
                    n_set_params |-> 0, n_fit |-> 0]
NoCall == [method |-> "none", out |-> NotCalled]
CVMethods == {"predict", "score", "decision_function"}

\* GlmCV(estimator=Glm(pen_val)): no attribute of a fit is set
NewGlmCV(pen_val) ==
    [pc |-> "idle", attrs |-> {}, pen_val_seq_ |-> <<>>, cv_results_ |-> 0,
     best_tune_idx_ |-> 0, best_tune_params_ |-> NoParams,
     best_estimator_ |-> NoEst, est |-> NoEst,
     ests |-> [e \in EstIds |->
                 IF e = BaseEst THEN NewEst(pen_val) ELSE FreeEst],
     log |-> <<>>, n_fits |-> 0, n_done |-> 0, call |-> NoCall]

CVInit ==
    /\ func = None
    /\ pt = <<>>
    /\ split_out = NotCalled
    /\ config = NoConfig
    /\ built = NotCalled
    /\ via = "none"
    /\ smooth_flag = NotCalled
    /\ prox_out = NotCalled
    /\ solvers = [i \in SolverIds |->
                    IF i = UserSolver THEN InitialSolver ELSE FreeSlot]
    /\ pens = [p \in PenIds |-> NoConfig]
    /\ adapters = [a \in AdapterIds |-> NewAdapter]
    /\ pushed = [a \in AdapterIds |-> NothingPushed]
    /\ obj_out = NotCalled
    /\ solve_out = NotCalled
    /\ lla = NoLLA
    /\ tuning = NoTuning
    /\ glm = NoGlm
    /\ cv \in {NewGlmCV(pen_val) : pen_val \in TuneVals}

\* sklearn's clone(estimator): a new, unfitted estimator with the same
\* parameters
clone(ests, e) ==
    LET new == CHOOSE i \in EstIds : ~ests[i].alloc
                                     /\ \A j \in EstIds : j < i => ests[j].alloc
    IN [id |-> new, ests |-> [ests EXCEPT ![new] = NewEst(ests[e].pen_val)]]

\* the estimator a fit call works on, without a clone: the base estimator
fit_est_base(c) == [id |-> BaseEst, ests |-> c.ests]

\* est = clone(self.estimator)
fit_est(c) == clone(c.ests, BaseEst)

\* est.set_params(**params)
set_params(ests, e, params) ==
    [ests EXCEPT ![e].pen_val = params.pen_val,
                 ![e].n_set_params = @ + 1]

\* est.fit(X, y), which returns est
est_fit(ests, e) == [ests EXCEPT ![e].fitted = TRUE, ![e].n_fit = @ + 1]

\* check_is_fitted(self): some attribute with a trailing underscore is set
check_is_fitted(c) == c.attrs # {}

\* the order of the steps of GlmCV.fit
FitOrder ==
    <<"clone", "set_tuning_values", "run_cv", "select_tune_param",
      "set_params", "refit">>

\* GlmCV.fit, up to the validation of the data
FitBegin ==
    /\ cv.pc = "idle"
    /\ cv.n_fits < MaxFits
    /\ cv' = [cv EXCEPT !.pc = "set_tuning_values",
                        !.est = fit_est(cv).id,
                        !.ests = fit_est(cv).ests,
                        !.log = <<"clone">>,
                        !.n_fits = @ + 1]
    /\ UNCHANGED <<glm>>
    /\ UNCHANGED notFitVars

\* self._set_tuning_values(X=X, y=y), as GlmCVSinglePen sets pen_val_seq_
FitSetTuningValues ==
    /\ cv.pc = "set_tuning_values"
    /\ \E seq \in TuneSeqs :
          cv' = [cv EXCEPT !.pc = "run_cv",
                           !.attrs = @ \cup {"pen_val_seq_"},
                           !.pen_val_seq_ = seq,
                           !.log = Append(@, "set_tuning_values")]
    /\ UNCHANGED <<glm>>
    /\ UNCHANGED notFitVars

\* self.cv_results_ = self._run_cv(X=X, y=y, cv=self.cv), and cv_data_
FitRunCV ==
    /\ cv.pc = "run_cv"
    /\ cv' = [cv EXCEPT !.pc = "select_tune_param",
                        !.attrs = @ \cup {"cv_results_", "cv_data_"},
                        !.cv_results_ = cv.n_fits,
                        !.log = Append(@, "run_cv")]
    /\ UNCHANGED <<glm>>
    /\ UNCHANGED notFitVars

\* self.best_tune_idx_, self.best_tune_params_ =
\*     self._select_tune_param(self.cv_results_)
FitSelectTuneParam ==
    /\ cv.pc = "select_tune_param"
    /\ \E k \in 1..Len(cv.pen_val_seq_) :
          cv' = [cv EXCEPT !.pc = "set_params",
                           !.attrs = @ \cup {"best_tune_idx_",
                                             "best_tune_params_"},
                           !.best_tune_idx_ = k - 1,
                           !.best_tune_params_ =
                               [pen_val |-> cv.pen_val_seq_[k]],
                           !.log = Append(@, "select_tune_param")]
    /\ UNCHANGED <<glm>>
    /\ UNCHANGED notFitVars

\* est.set_params(**self.best_tune_params_)
FitSetParams ==
    /\ cv.pc = "set_params"
    /\ cv' = [cv EXCEPT !.pc = "refit",
                        !.ests = set_params(cv.ests, cv.est,
                                            cv.best_tune_params_),
                        !.log = Append(@, "set_params")]
    /\ UNCHANGED <<glm>>
    /\ UNCHANGED notFitVars

\* self.best_estimator_ = est.fit(X, y), cv_data_['refit_runtime'], return
FitRefit ==
    /\ cv.pc = "refit"
    /\ cv' = [cv EXCEPT !.pc = "idle",
                        !.attrs = @ \cup {"best_estimator_"},
                        !.ests = est_fit(cv.ests, cv.est),
                        !.best_estimator_ = cv.est,
                        !.est = NoEst,
                        !.log = Append(@, "refit"),
                        !.n_done = @ + 1]
    /\ UNCHANGED <<glm>>
    /\ UNCHANGED notFitVars

\* a call made by fit raises: fit ends there, and what it set stays set
FitRaises ==
    /\ cv.pc \notin {"idle", "none"}
    /\ cv' = [cv EXCEPT !.pc = "idle", !.est = NoEst]
    /\ UNCHANGED <<glm>>
    /\ UNCHANGED notFitVars

\* predict, score, decision_function: check_is_fitted(self), then the call
\* on self.best_estimator_
CVDelegate(c, method) ==
    IF ~check_is_fitted(c)
    THEN Raised("NotFittedError", Msg("", NoArg))
    ELSE IF "best_estimator_" \notin c.attrs
    THEN Raised("AttributeError", Msg("best_estimator_", NoArg))
    ELSE Ok(c.best_estimator_)

CVCall ==
    /\ cv.pc = "idle"
    /\ \E method \in CVMethods :
          cv' = [cv EXCEPT !.call = [method |-> method,
                                     out |-> CVDelegate(cv, method)]]
    /\ UNCHANGED <<glm>>
    /\ UNCHANGED notFitVars

CVNext ==
    \/ FitBegin
    \/ FitSetTuningValues
    \/ FitRunCV
    \/ FitSelectTuneParam
    \/ FitSetParams
    \/ FitRefit
    \/ FitRaises
    \/ CVCall
SpecCV == CVInit /\ [][CVNext]_vars

\* a prefix of a sequence
IsPrefix(s, t) == Len(s) <= Len(t) /\ \A i \in 1..Len(s) : s[i] = t[i]

\* C27: in every GlmCV.fit the tuning values are set before cross-validation
\* runs, cross-validation is over before the tuning parameter is selected and
\* the refit comes last, on a clone; the base estimator is never fitted and
\* set_params is never called on it; when a fit is over best_estimator_ is
\* the clone that fit made, fitted once and carrying best_tune_params_; and
\* predict, score and decision_function return a value only once some fit
\* was completed.
C27_FitSequencing ==
    /\ [](cv.pc # "none" =>
            /\ IsPrefix(cv.log, FitOrder)
            /\ cv.est # BaseEst
            /\ cv.best_estimator_ # BaseEst
            /\ ~cv.ests[BaseEst].fitted
            /\ cv.ests[BaseEst].n_fit = 0
            /\ cv.ests[BaseEst].n_set_params = 0
            /\ (IsOk(cv.call.out) => cv.n_done > 0))
    /\ [][(cv.pc # "none" /\ cv'.n_done # cv.n_done) =>
            /\ cv.log = SubSeq(FitOrder, 1, Len(FitOrder) - 1)
            /\ cv'.best_estimator_ = cv.est
            /\ cv'.best_estimator_ \notin {BaseEst, cv.best_estimator_}
            /\ cv'.ests[cv'.best_estimator_].pen_val
                 = cv'.best_tune_params_.pen_val
            /\ cv'.ests[cv'.best_estimator_].fitted
            /\ cv'.ests[cv'.best_estimator_].n_fit = 1
            /\ cv'.ests[cv'.best_estimator_].n_set_params = 1]_vars

\* a second fit was completed after a failed one, the methods having failed
\* before the first completed fit
C27_Witness ==
    /\ cv.pc = "idle"
    /\ cv.n_done = 1
    /\ cv.n_fits = MaxFits
    /\ cv.best_estimator_ = MaxFits + 1
    /\ cv.ests[cv.best_estimator_].pen_val # cv.ests[BaseEst].pen_val
    /\ IsOk(cv.call.out)



(***************************************************************************)
(* GlmCVENet: the tuning grid and the tuning sequence                      *)
(***************************************************************************)
\* l1_ratio as given to GlmCVENet: 'tune', a list of ratios or one ratio
L1Tune == [kind |-> "tune", vals |-> <<>>]
L1List(vals) == [kind |-> "list", vals |-> vals]
L1Number(v) == [kind |-> "number", vals |-> <<v>>]
\* pen_vals as given to GlmCVENet: None, an array or one number
PenNone == [kind |-> "None", vals |-> NoArray]
PenArray(a) == [kind |-> "array", vals |-> a]
PenNumber(v) == [kind |-> "number", vals |-> Arr1(<<v>>)]

\* self.l1_ratio == 'tune' or hasattr(self.l1_ratio, '__len__')
tune_l1_ratio(obj) == obj.l1_ratio.kind \in {"tune", "list"}
\* not isinstance(self.pen_vals, Number)
tune_pen_val(obj) == obj.pen_vals.kind # "number"

\* one tuning parameter setting: a dict with the keys given
Setting(l1_ratio, pen_val) ==
    [keys |-> {"l1_ratio", "pen_val"}, l1_ratio |-> l1_ratio,
     pen_val |-> pen_val]
SettingOf(key, v) ==
    [keys |-> {key}, l1_ratio |-> IF key = "l1_ratio" THEN v ELSE <<>>,
     pen_val |-> IF key = "pen_val" THEN v ELSE 0]
\* list(ParameterGrid({key: vals}))
ParameterGridList(key, vals) ==
    [k \in 1..Len(vals) |-> SettingOf(key, vals[k])]
\* a dict of lists with one key
GridDict(key, vals) == [kind |-> "dict", key |-> key, vals |-> vals]
\* a list of settings
GridList(items) == [kind |-> "list", items |-> items]

\* GlmCVENet.get_tuning_sequence
get_tuning_sequence(obj) ==
    IF tune_l1_ratio(obj) /\ tune_pen_val(obj)
    THEN LET n_l1_ratios == Len(obj.pen_val_seq_.rows)
             n_pen_vals == Len(obj.pen_val_seq_.rows[1])
         IN GridList([k \in 1..(n_l1_ratios * n_pen_vals) |->
                LET l1_idx == (k - 1) \div n_pen_vals
                    pen_idx == (k - 1) % n_pen_vals
                IN Setting(obj.l1_ratio_seq_[l1_idx + 1],
                           obj.pen_val_seq_.rows[l1_idx + 1][pen_idx + 1])])
    ELSE IF tune_l1_ratio(obj)
    THEN GridList(ParameterGridList("l1_ratio", obj.l1_ratio_seq_))
    ELSE IF tune_pen_val(obj)
    THEN GridList(ParameterGridList("pen_val", obj.pen_val_seq_.rows[1]))
    ELSE None

\* GlmCVENet.get_tuning_param_grid
get_tuning_param_grid(obj) ==
    IF tune_l1_ratio(obj) /\ tune_pen_val(obj)
    THEN get_tuning_sequence(obj)
    ELSE IF tune_l1_ratio(obj)
    THEN GridDict("l1_ratio", obj.l1_ratio_seq_)
    ELSE IF tune_pen_val(obj)
    THEN GridDict("pen_val", obj.pen_val_seq_.rows[1])
    ELSE None

\* the GlmCVENet objects after _set_tuning_values: l1_ratio_seq_ is set
\* when the l1 ratio is tuned, pen_val_seq_ when the penalty value is, with
\* one row per l1 ratio when both are
GridPenVals == 1..MaxPenVal
GridRatioSeqs == UNION {[1..n -> RatioVals] : n \in 1..MaxGridRatios}
GridRows(nr) ==
    UNION {[1..nr -> [1..nc -> GridPenVals]] : nc \in 1..MaxTuneLen}
GridObject(l1_ratio, pen_vals, l1_ratio_seq_, pen_val_seq_) ==
    [fn |-> "none", l1_ratio |-> l1_ratio, pen_vals |-> pen_vals,
     l1_ratio_seq_ |-> l1_ratio_seq_, pen_val_seq_ |-> pen_val_seq_,
     out |-> NotCalled]
GridObjects ==
    UNION {
      \* both tuned
      UNION {UNION {{GridObject(l1, pv, rs, Arr2(rows)) :
                       l1 \in {L1Tune, L1List(rs)},
                       pv \in {PenNone, PenArray(Arr2(rows))}} :
                     rows \in GridRows(Len(rs))} : rs \in GridRatioSeqs},
      \* the l1 ratio only
      {GridObject(l1, PenNumber(v), l1.vals, NoArray) :
         l1 \in {L1List(rs) : rs \in GridRatioSeqs},
         v \in GridPenVals},
      \* the penalty value only
      UNION {{GridObject(L1Number(r), pv, NoRatioSeq, Arr1(rows[1])) :
                r \in RatioVals,
                pv \in {PenNone, PenArray(Arr1(rows[1]))}} :
              rows \in GridRows(1)},
      \* neither
      {GridObject(L1Number(r), PenNumber(v), NoRatioSeq, NoArray) :
         r \in RatioVals, v \in GridPenVals}}

GridInit ==
    /\ func = None
    /\ pt = <<>>
    /\ split_out = NotCalled
    /\ config = NoConfig
    /\ built = NotCalled
    /\ via = "none"
    /\ smooth_flag = NotCalled
    /\ prox_out = NotCalled
    /\ solvers = [i \in SolverIds |->
                    IF i = UserSolver THEN InitialSolver ELSE FreeSlot]
    /\ pens = [p \in PenIds |-> NoConfig]
    /\ adapters = [a \in AdapterIds |-> NewAdapter]
    /\ pushed = [a \in AdapterIds |-> NothingPushed]
    /\ obj_out = NotCalled
    /\ solve_out = NotCalled
    /\ lla = NoLLA
    /\ cv = NoGlmCV
    /\ glm = NoGlm
    /\ tuning \in GridObjects

GetTuningSequence ==
    /\ tuning.fn = "none"
    /\ tuning' = [tuning EXCEPT !.fn = "get_tuning_sequence",
                                !.out = Ok(get_tuning_sequence(tuning))]
    /\ UNCHANGED notTuningVars

GetTuningParamGrid ==
    /\ tuning.fn = "none"
    /\ tuning' = [tuning EXCEPT !.fn = "get_tuning_param_grid",
                                !.out = Ok(get_tuning_param_grid(tuning))]
    /\ UNCHANGED notTuningVars

GridNext == GetTuningSequence \/ GetTuningParamGrid
SpecGrid == GridInit /\ [][GridNext]_vars

\* C28: with both the l1 ratio and the penalty value tuned,
\* get_tuning_sequence returns n_l1_ratios * n_pen_vals settings, the k-th
\* (from 0) pairing l1_ratio_seq_[k div n_pen_vals] with
\* pen_val_seq_[k div n_pen_vals, k mod n_pen_vals]; and whatever l1_ratio
\* and pen_vals are, get_tuning_sequence and get_tuning_param_grid return a
\* value that is not None.
C28_TuningSequenceOrder ==
    tuning.fn \in {"get_tuning_sequence", "get_tuning_param_grid"} =>
        /\ tuning.out # Ok(None)
        /\ (tuning.fn = "get_tuning_sequence"
            /\ tune_l1_ratio(tuning) /\ tune_pen_val(tuning)) =>
              LET items == tuning.out.value.items
                  n_l1_ratios == Len(tuning.l1_ratio_seq_)
                  n_pen_vals == Len(tuning.pen_val_seq_.rows[1])
              IN /\ Len(items) = n_l1_ratios * n_pen_vals
                 /\ \A k \in 0..(Len(items) - 1) :
                      items[k + 1] =
                        Setting(tuning.l1_ratio_seq_[(k \div n_pen_vals) + 1],
                                tuning.pen_val_seq_.rows
                                  [(k \div n_pen_vals) + 1]
                                  [(k % n_pen_vals) + 1])



(***************************************************************************)
(* Glm: fit and what it records                                            *)
(***************************************************************************)
\* the output of preprocess: the keys that are there, and their values
PreProOut(keys, X_scale, X_center) ==
    [keys |-> keys, X_scale |-> X_scale, X_center |-> X_center,
     classes |-> IF "classes" \in keys THEN "classes" ELSE "-"]
\* what preprocess can give: the scaling and centering of X when the
\* estimator standardizes, the classes of y for a classifier
PreProOuts(standardize) ==
    {PreProOut(ks \cup cs, RInt(sc), RInt(ce)) :
       ks \in (IF standardize THEN {{"X_scale", "X_center"}} ELSE {{}}),
       cs \in {{}, {"classes"}},
       sc \in (IF standardize THEN 1..MaxScale ELSE {1}),
       ce \in (IF standardize THEN 0..MaxCoef ELSE {0})}

\* what the solver returns: coef, intercept (None without an intercept) and
\* its optimization data
SolveCoefs == {RInt(v) : v \in (-MaxCoef)..MaxCoef}
SolveIntercepts(fit_intercept) ==
    IF fit_intercept THEN {RZero, ROne} ELSE {NoRatio}
OptData == {"opt_data_1", "opt_data_2"}
NoOptData == "-"

\* a dict with the keys given
FitOut(keys, coef, intercept, data) ==
    [keys |-> keys, coef |-> coef, intercept |-> intercept, data |-> data]

\* deprocess_fit: the coefficient and the intercept on the scale of the raw
\* data
deprocess_fit(coef, intercept, pre_pro_out, fit_intercept) ==
    LET coef_ == IF "X_scale" \in pre_pro_out.keys
                 THEN RDiv(coef, pre_pro_out.X_scale)
                 ELSE coef
        intercept_ == IF fit_intercept /\ "X_center" \in pre_pro_out.keys
                      THEN RSub(intercept, RMul(coef_, pre_pro_out.X_center))
                      ELSE intercept
    IN <<coef_, intercept_>>

NoFitCall == [fit_out |-> FitOut({}, RZero, NoRatio, NoOptData),
              pre_pro_out |-> PreProOut({}, ROne, RZero),
              out |-> NotCalled]

\* Glm(fit_intercept, standardize), of a class that has a solve method or
\* has none
NewGlm(fit_intercept, standardize, has_solve) ==
    [pc |-> "new", fit_intercept |-> fit_intercept,
     standardize |-> standardize, has_solve |-> has_solve, attrs |-> {},
     coef_ |-> RZero, intercept_ |-> NoRatio, opt_data_ |-> NoOptData,
     classes_ |-> "-", n_fits |-> 0, call |-> NoFitCall]

GlmInit ==
    /\ func = None
    /\ pt = <<>>
    /\ split_out = NotCalled
    /\ config = NoConfig
    /\ built = NotCalled
    /\ via = "none"
    /\ smooth_flag = NotCalled
    /\ prox_out = NotCalled
    /\ solvers = [i \in SolverIds |->
                    IF i = UserSolver THEN InitialSolver ELSE FreeSlot]
    /\ pens = [p \in PenIds |-> NoConfig]
    /\ adapters = [a \in AdapterIds |-> NewAdapter]
    /\ pushed = [a \in AdapterIds |-> NothingPushed]
    /\ obj_out = NotCalled
    /\ solve_out = NotCalled
    /\ lla = NoLLA
    /\ tuning = NoTuning
    /\ cv = NoGlmCV
    /\ glm \in {NewGlm(fit_intercept, standardize, has_solve) :
                  fit_intercept \in BOOLEAN, standardize \in BOOLEAN,
                  has_solve \in BOOLEAN}

\* the dict fit hands to _set_fit
fit_out_of(coef, intercept, out_data) ==
    FitOut({"coef", "intercept", "out_data"}, coef, intercept, out_data)

\* Glm._set_fit(fit_out, pre_pro_out)
Glm_set_fit(g, fit_out, pre_pro_out) ==
    LET d == deprocess_fit(fit_out.coef, fit_out.intercept, pre_pro_out,
                           g.fit_intercept)
        with_opt == "opt_data" \in fit_out.keys
        with_classes == "classes" \in pre_pro_out.keys
    IN [g EXCEPT
          !.attrs = @ \cup {"coef_", "intercept_"}
                      \cup (IF with_opt THEN {"opt_data_"} ELSE {})
                      \cup (IF with_classes THEN {"classes_"} ELSE {}),
          !.coef_ = d[1],
          !.intercept_ = d[2],
          !.opt_data_ = IF with_opt THEN fit_out.data ELSE @,
          !.classes_ = IF with_classes THEN pre_pro_out.classes ELSE @]

\* Glm.fit(X, y)
Glm_fit(g, valid, pre_pro_out, coef, intercept, out_data) ==
    IF ~valid
    THEN [g EXCEPT !.pc = "failed", !.n_fits = @ + 1,
                   !.call = [NoFitCall EXCEPT !.out =
                       Raised("ValueError",
                              Msg("X and y must have the same number of rows!",
                                  NoArg))]]
    ELSE IF ~g.has_solve
    THEN [g EXCEPT !.pc = "failed", !.n_fits = @ + 1,
                   !.call = [NoFitCall EXCEPT
                       !.pre_pro_out = pre_pro_out,
                       !.out = Raised("AttributeError", Msg("solve", NoArg))]]
    ELSE [Glm_set_fit(g, fit_out_of(coef, intercept, out_data), pre_pro_out)
            EXCEPT !.pc = "fitted", !.n_fits = @ + 1,
                   !.call = [fit_out |->
                               fit_out_of(coef, intercept, out_data),
                             pre_pro_out |-> pre_pro_out,
                             out |-> Ok("self")]]

GlmFit ==
    /\ glm.pc # "none"
    /\ glm.n_fits < MaxFits
    /\ \E valid \in BOOLEAN, pre_pro_out \in PreProOuts(glm.standardize),
          coef \in SolveCoefs,
          intercept \in SolveIntercepts(glm.fit_intercept),
          out_data \in OptData :
          glm' = Glm_fit(glm, valid, pre_pro_out, coef, intercept, out_data)
    /\ UNCHANGED <<cv>>
    /\ UNCHANGED notFitVars

GlmNext == GlmFit
SpecGlm == GlmInit /\ [][GlmNext]_vars

\* C29: after every Glm.fit that succeeds, coef_ and intercept_ are the
\* solver's coefficient and intercept mapped back to the scale of the raw
\* data, opt_data_ is the optimization data the solver returned, and fit
\* returned the estimator itself.
C29_FitRecordsSolverOutput ==
    (glm.pc = "fitted" /\ IsOk(glm.call.out)) =>
        /\ {"coef_", "intercept_"} \subseteq glm.attrs
        /\ <<glm.coef_, glm.intercept_>>
             = deprocess_fit(glm.call.fit_out.coef,
                             glm.call.fit_out.intercept,
                             glm.call.pre_pro_out, glm.fit_intercept)
        /\ "opt_data_" \in glm.attrs
        /\ glm.opt_data_ = glm.call.fit_out.data
        /\ glm.call.out = Ok("self")

====
